---- MODULE Spec2Model ----
(***************************************************************************)
(* A state-machine model of notebookmd: the Notebook report accumulator    *)
(* (core.py), its AssetManager (assets.py), the plugin registry            *)
(* (plugins/_base.py, plugins/_registry.py), the cache (cache.py), the     *)
(* script runner (runner.py) and the column layout (core.py, widgets.py).  *)
(*                                                                         *)
(* Text is modelled as a sequence of string tokens: a Python str is the    *)
(* concatenation of its tokens, "".join is sequence concatenation and      *)
(* str.replace works token by token.  A path is a sequence of components   *)
(* [stem, ext]; PathStr gives the str the code holds.                      *)
(***************************************************************************)
EXTENDS Integers, Sequences, FiniteSets, TLC

VARIABLES
    _started,       \* Notebook._started
    _chunks,        \* Notebook._chunks: the document buffer
    _counter,       \* Notebook._counter
    _artifacts,     \* AssetManager._artifacts: relative paths, in order
    disk,           \* relative paths of the files the asset store has written
    clock,          \* datetime.now(), in ticks
    scopes,         \* the with-blocks currently open, innermost last
    lastCall,       \* the call that ended last: [op, ret, raised, file, before, known, closed];
                    \* file is the text the call wrote to Notebook.out_path, before
                    \* the earlier result the call repeats, known whether the path
                    \* the call returned was in the asset list already
    final,          \* [op, text] of the last finalize since the buffer and the
                    \* asset list last changed
    emitted,        \* history: the fragments written by the caller's calls, in call order
    headerAt,       \* history: index in _chunks of the first header chunk, 0 before the start
    directReg,      \* history: the paths handed to AssetManager.register() by the caller
    _global_registry,   \* plugins._registry._global_registry: <<name, class>> in dict order
    constructed,    \* a Notebook has been constructed
    nb_methods,     \* the Notebook's attributes: name |-> the class whose method is bound
    nb_plugins,     \* the Notebook's bound bundles: the set of [name, cls]
    latest,         \* history: name |-> the class last registered under it and not
                    \* since unregistered or cleared, "" for none
    _data_memory,   \* CacheManager._data_memory: a MemoryStore [_data, _max_entries, stats]
    _data_disk,     \* the files of CacheManager._data_disk: key |-> [value, created_at, ttl]
    _resource_memory,   \* CacheManager._resource_memory: a MemoryStore
    threads,        \* thread |-> where it is in a cache_resource wrapper: [pc, key, result]
    bodies,         \* history: the runs of decorated function bodies, [key, ret] in order
    store,          \* a MemoryStore made by the caller with max_entries
    used,           \* history: the keys of store, least recently used first
    cwd,            \* os.getcwd()
    Notebook_w,     \* the function Notebook._w is
    stream,         \* the chunks written to the live stream
    run,            \* Runner.execute in progress: its config and its locals
    group           \* the _ColumnGroup the caller holds, with the history of its use

vars == <<_started, _chunks, _counter, _artifacts, disk, clock, scopes,
          lastCall, final, emitted, headerAt, directReg,
          _global_registry, constructed, nb_methods, nb_plugins, latest,
          _data_memory, _data_disk, _resource_memory, threads, bodies, store, used,
          cwd, Notebook_w, stream, run, group>>

\* the report of one Notebook, but for lastCall
reportVars == <<_started, _chunks, _counter, _artifacts, disk, clock, scopes,
                final, emitted, headerAt, directReg>>

pluginVars == <<_global_registry, constructed, nb_methods, nb_plugins, latest>>

\* what a Notebook has bound
bindVars == <<constructed, nb_methods, nb_plugins>>

cacheVars == <<_data_memory, _data_disk, _resource_memory, threads, bodies,
               store, used>>

runVars == <<cwd, Notebook_w, stream, run>>

\* what lives beside the Notebook and the registry
hostVars == <<cacheVars, runVars, group>>

---------------------------------------------------------------------------
(* Bounds of the model *)

MaxContent == 2     \* fragments the caller may emit
MaxClock == 1       \* ticks of the clock
MaxCounter == 1     \* ids _next_id may hand out
MaxAssets == 3      \* entries of the asset list of an AssetManager driven directly
MaxRows == 3        \* rows of a table input, and the largest max_rows
MaxMetrics == 2     \* metrics of a metric row
MaxTime == 2        \* seconds the clock of the cache may reach
MaxRuns == 3        \* runs of decorated function bodies
MaxLookups == 3     \* lookups counted in the stats of one MemoryStore
MaxEntries == 2     \* the largest max_entries of a MemoryStore
MaxEvictions == 2   \* evictions counted in the stats of one MemoryStore
MaxColumns == 3     \* columns of a column group

---------------------------------------------------------------------------
(* Strings *)

PLACEHOLDER == "{{ARTIFACTS_PLACEHOLDER}}"

Whitespace == {" ", "\n", "\n\n"}

RECURSIVE rstrip(_)
rstrip(s) ==
    IF s # <<>> /\ s[Len(s)] \in Whitespace THEN rstrip(SubSeq(s, 1, Len(s) - 1)) ELSE s

RECURSIVE lstrip(_)
lstrip(s) ==
    IF s # <<>> /\ s[1] \in Whitespace THEN lstrip(Tail(s)) ELSE s

strip(s) == lstrip(rstrip(s))

RECURSIVE join(_)
join(parts) ==
    IF parts = <<>> THEN <<>> ELSE Head(parts) \o join(Tail(parts))

RECURSIVE replace(_, _, _)
replace(s, old, new) ==
    IF s = <<>> THEN <<>>
    ELSE IF Head(s) = old THEN new \o replace(Tail(s), old, new)
    ELSE <<Head(s)>> \o replace(Tail(s), old, new)

Range(s) == {s[i] : i \in DOMAIN s}

IsPrefix(s, t) == Len(s) <= Len(t) /\ SubSeq(t, 1, Len(s)) = s

Count(s, tok) == Cardinality({i \in DOMAIN s : s[i] = tok})

---------------------------------------------------------------------------
(* Paths *)

Comp(stem, ext) == [stem |-> stem, ext |-> ext]

Dir(name) == Comp(name, "")

CompStr(c) == c.stem \o c.ext

RECURSIVE PathStr(_)
PathStr(p) ==
    IF p = <<>> THEN ""
    ELSE IF Len(p) = 1 THEN CompStr(p[1])
    ELSE CompStr(p[1]) \o "/" \o PathStr(Tail(p))

\* Path(art).name
PathName(p) == CompStr(p[Len(p)])

\* Path(filename).stem + suffix, as a filename
WithSuffix(filename, suffix) == <<Comp(filename[Len(filename)].stem, suffix)>>

endswith(filename, suffix) == filename[Len(filename)].ext = suffix

RECURSIVE normpath_from(_, _)
normpath_from(acc, p) ==
    IF p = <<>> THEN acc
    ELSE IF Head(p) = Dir(".") THEN normpath_from(acc, Tail(p))
    ELSE IF Head(p) = Dir("..") /\ acc # <<>> /\ acc[Len(acc)] # Dir("..")
         THEN normpath_from(SubSeq(acc, 1, Len(acc) - 1), Tail(p))
    ELSE normpath_from(Append(acc, Head(p)), Tail(p))

normpath(p) == normpath_from(<<>>, p)

RECURSIVE commonprefix(_, _)
commonprefix(p, q) ==
    IF p # <<>> /\ q # <<>> /\ Head(p) = Head(q)
    THEN 1 + commonprefix(Tail(p), Tail(q)) ELSE 0

relpath(path, start) ==
    LET p == normpath(path)
        s == normpath(start)
        i == commonprefix(p, s)
        rel == [k \in 1..(Len(s) - i) |-> Dir("..")] \o SubSeq(p, i + 1, Len(p))
    IN  IF rel = <<>> THEN <<Dir(".")>> ELSE rel

\* Notebook.out_path.parent and Notebook.assets_path, from the root of the file system
base_dir == <<Dir("dist")>>

assets_dir == base_dir \o <<Dir("assets")>>

out_path == base_dir \o <<Comp("report", ".md")>>

title == "Report"

---------------------------------------------------------------------------
(* Renderers (emitters.py, widgets.py) *)

render_md(text) == rstrip(text) \o <<"\n\n">>

render_note(text) == <<"> **Note:** ">> \o strip(text) \o <<"\n\n">>

render_header(text, divider) ==
    <<"## ", text, "\n\n">> \o (IF divider THEN <<"---", "\n\n">> ELSE <<>>)

render_figure(rel_path, caption, filename) ==
    LET alt == IF caption # "" THEN caption
               ELSE IF filename # "" THEN filename ELSE rel_path
    IN  <<"![", alt, "](", rel_path, ")", "\n\n">>
        \o (IF caption # "" THEN <<"*", caption, "*", "\n\n">> ELSE <<>>)

render_plotly_chart(rel_path, caption) == render_figure(rel_path, caption, rel_path)

render_expander_start(label, expanded) ==
    <<"<details", IF expanded THEN " open" ELSE "", ">\n<summary><strong>", label,
      "</strong></summary>", "\n\n">>

render_expander_end == <<"\n</details>", "\n\n">>

---------------------------------------------------------------------------
(* AssetManager (assets.py).  An asset manager is the record                *)
(* [artifacts, disk]; a save returns [am, ret, raised].                     *)

\* closed: the call has closed the figure it was given (plt.close(fig))
Returned(am, ret) == [am |-> am, ret |-> ret, raised |-> "", closed |-> FALSE]

Raised(am, exc) == [am |-> am, ret |-> <<>>, raised |-> exc, closed |-> FALSE]

rel_path(absolute) == relpath(absolute, base_dir)

register_again(am, rel) == [am EXCEPT !.artifacts = Append(@, rel)]

register(am, rel) ==
    IF rel \notin Range(am.artifacts)
    THEN [am EXCEPT !.artifacts = Append(@, rel)]
    ELSE am

\* the file at out_file has been written in full
written(am, out) == [am EXCEPT !.disk = @ \cup {rel_path(out)}]

render_index_newest_first(artifacts) ==
    IF artifacts = <<>> THEN <<"_No artifacts generated._\n">>
    ELSE LET line(i) == <<"- [", PathName(artifacts[i]), "](", PathStr(artifacts[i]), ")">>
             k == Len(artifacts)
             lines == [i \in DOMAIN artifacts |->
                          IF i = 1 THEN line(k) ELSE <<"\n">> \o line(k + 1 - i)]
         IN  join(lines) \o <<"\n">>

render_index(artifacts) ==
    IF artifacts = <<>> THEN <<"_No artifacts generated._\n">>
    ELSE LET line(i) == <<"- [", PathName(artifacts[i]), "](", PathStr(artifacts[i]), ")">>
             lines == [i \in DOMAIN artifacts |->
                          IF i = 1 THEN line(i) ELSE <<"\n">> \o line(i)]
         IN  join(lines) \o <<"\n">>

save_figure_register_first(am, filename, outcome) ==
    IF outcome = "no matplotlib" THEN Raised(am, "ImportError")
    ELSE LET out == assets_dir \o filename
         IN  IF outcome = "savefig raises" THEN Raised(register(am, rel_path(out)), "OSError")
             ELSE IF outcome = "close raises" THEN Raised(written(am, out), "TypeError")
             ELSE Returned(register(written(am, out), rel_path(out)), rel_path(out))

save_figure(am, filename, outcome) ==
    IF outcome = "no matplotlib" THEN Raised(am, "ImportError")
    ELSE LET out == assets_dir \o filename
         IN  IF outcome = "savefig raises" THEN Raised(am, "OSError")
             ELSE IF outcome = "close raises" THEN Raised(written(am, out), "TypeError")
             ELSE [Returned(register(written(am, out), rel_path(out)), rel_path(out))
                      EXCEPT !.closed = TRUE]

save_csv(am, filename, outcome) ==
    LET out == assets_dir \o filename
    IN  IF outcome = "to_csv raises" THEN Raised(am, "OSError")
        ELSE Returned(register(written(am, out), rel_path(out)), rel_path(out))

\* image_ok: fig.write_image succeeds (kaleido is there); html_ok: fig.write_html does
save_plotly(am, filename, image_ok, html_ok) ==
    LET out == assets_dir \o filename
        fallback == assets_dir \o WithSuffix(filename, ".html")
        first == IF endswith(filename, ".html") THEN html_ok ELSE image_ok
    IN  IF first
        THEN Returned(register(written(am, out), rel_path(out)), rel_path(out))
        ELSE IF html_ok
        THEN Returned(register(written(am, fallback), rel_path(fallback)), rel_path(fallback))
        ELSE Raised(am, "Exception")

save_altair_requested_path(am, filename, image_ok, html_ok, json_ok) ==
    LET out == assets_dir \o filename
        fallback == assets_dir \o WithSuffix(filename, ".html")
        last == assets_dir \o WithSuffix(filename, ".json")
        first == IF endswith(filename, ".html") THEN html_ok ELSE image_ok
    IN  IF first
        THEN Returned(register(written(am, out), rel_path(out)), rel_path(out))
        ELSE IF html_ok
        THEN Returned(register(written(am, fallback), rel_path(out)), rel_path(out))
        ELSE IF json_ok
        THEN Returned(register(written(am, last), rel_path(out)), rel_path(out))
        ELSE Raised(am, "Exception")

\* image_ok: chart.save(png) succeeds; html_ok: chart.save(format="html") does;
\* json_ok: chart.to_dict() and the write of the spec do
save_altair(am, filename, image_ok, html_ok, json_ok) ==
    LET out == assets_dir \o filename
        fallback == assets_dir \o WithSuffix(filename, ".html")
        last == assets_dir \o WithSuffix(filename, ".json")
        first == IF endswith(filename, ".html") THEN html_ok ELSE image_ok
    IN  IF first
        THEN Returned(register(written(am, out), rel_path(out)), rel_path(out))
        ELSE IF html_ok
        THEN Returned(register(written(am, fallback), rel_path(fallback)), rel_path(fallback))
        ELSE IF json_ok
        THEN Returned(register(written(am, last), rel_path(last)), rel_path(last))
        ELSE Raised(am, "Exception")

save_image(am, filename, outcome) ==
    LET out == assets_dir \o filename
    IN  IF outcome = "raises" THEN Raised(am, "Exception")
        ELSE Returned(register(written(am, out), rel_path(out)), rel_path(out))

save_json(am, filename, ok) ==
    LET out == assets_dir \o filename
    IN  IF ~ok THEN Raised(am, "OSError")
        ELSE Returned(register(written(am, out), rel_path(out)), rel_path(out))

---------------------------------------------------------------------------
(* Notebook (core.py).  A notebook is the record [started, chunks, counter, *)
(* am]; `now` is the reading of the clock.                                  *)

strftime(now) == "2026-01-01 00:00:0" \o ToString(now)

_w_front(n, s) == [n EXCEPT !.chunks = <<s>> \o @]

_w(n, s) == [n EXCEPT !.chunks = Append(@, s)]

HeaderTitle(now) == <<"# ", title, "\n\n", "_Generated: ", strftime(now), "_", "\n\n">>

HeaderArtifacts == <<"## Artifacts", "\n\n">>

HeaderPlaceholder == <<PLACEHOLDER, "\n\n", "---", "\n\n">>

_ensure_started_every_time(n, now) ==
    _w(_w(_w([n EXCEPT !.started = TRUE], HeaderTitle(now)),
          HeaderArtifacts),
       HeaderPlaceholder)

_ensure_started_unflagged(n, now) ==
    IF n.started THEN n
    ELSE _w(_w(_w(n, HeaderTitle(now)), HeaderArtifacts), HeaderPlaceholder)

_ensure_started(n, now) ==
    IF n.started THEN n
    ELSE _w(_w(_w([n EXCEPT !.started = TRUE], HeaderTitle(now)),
               HeaderArtifacts),
            HeaderPlaceholder)

_next_id(n) == [n EXCEPT !.counter = @ + 1]

to_markdown(n, now) ==
    LET n1 == _ensure_started(n, now)
        content == join(n1.chunks)
        artifact_index == render_index(n1.am.artifacts)
    IN  [n |-> n1, ret |-> replace(content, PLACEHOLDER, artifact_index)]

save_unreplaced(n, now) ==
    LET n1 == _ensure_started(n, now)
    IN  [n |-> n1, text |-> join(n1.chunks), ret |-> <<PathStr(out_path)>>]

\* the text save() hands to out_path.write_text
save(n, now) ==
    LET n1 == _ensure_started(n, now)
        content == join(n1.chunks)
        artifact_index == render_index(n1.am.artifacts)
    IN  [n |-> n1, text |-> replace(content, PLACEHOLDER, artifact_index),
         ret |-> <<PathStr(out_path)>>]

section(n, now, heading, description) ==
    LET n1 == _w(_ensure_started(n, now), <<"## ", heading, "\n\n">>)
    IN  IF description # "" THEN _w(n1, <<"_", description, "_", "\n\n">>) ELSE n1

header(n, now, text, divider) == _w(_ensure_started(n, now), render_header(text, divider))

md(n, text) == _w(n, render_md(text))

note(n, text) == _w(n, render_note(text))

\* a save followed by the link, or the save's exception
Linked(r, n, fragment) ==
    IF r.raised # ""
    THEN [n |-> [n EXCEPT !.am = r.am], ret |-> <<>>, raised |-> r.raised,
          closed |-> r.closed]
    ELSE [n |-> _w([n EXCEPT !.am = r.am], fragment), ret |-> r.ret, raised |-> "",
          closed |-> r.closed]

figure(n, filename, caption, outcome) ==
    LET r == save_figure(n.am, filename, outcome)
    IN  Linked(r, n, render_figure(PathStr(r.ret), caption, PathStr(filename)))

export_csv(n, filename, outcome) ==
    LET r == save_csv(n.am, filename, outcome)
    IN  Linked(r, n, <<"**Exported:** [", PathStr(filename), "](", PathStr(r.ret), ")", "\n\n">>)

\* filename = <<>> stands for None
plotly_chart(n, filename, image_ok, html_ok) ==
    LET n1 == IF filename # <<>> THEN n ELSE _next_id(n)
        fname == IF filename # <<>> THEN filename
                 ELSE <<Comp("plotly_" \o ToString(n1.counter), ".png")>>
        r == save_plotly(n1.am, fname, image_ok, html_ok)
    IN  Linked(r, n1, render_plotly_chart(PathStr(r.ret), ""))

---------------------------------------------------------------------------
(* Bundle classes (plugins/_base.py, plugins/text.py and the classes of     *)
(* tests/unit/test_plugins.py).  A class is known by its Python name; an    *)
(* attribute is [name, callable], its name a token sequence.  Each of the   *)
(* eight built-in bundles is carried with its bundle name and one method.   *)

Attr(name, callable) == [name |-> name, callable |-> callable]

\* what dir(PluginSpec) holds of PluginSpec's own
PluginSpecAttrs ==
    {Attr(<<"name">>, FALSE), Attr(<<"version">>, FALSE), Attr(<<"requires">>, FALSE),
     Attr(<<"get_methods">>, TRUE), Attr(<<"_", "_init__">>, TRUE)}

\* OtherText: a bundle of another package that takes the built-in name "text"
PluginClasses ==
    {"TextPlugin", "DataPlugin", "ChartPlugin", "StatusPlugin", "LayoutPlugin",
     "MediaPlugin", "AnalyticsPlugin", "UtilityPlugin",
     "CustomHeader", "PluginA", "PluginB", "NoName", "OtherText"}

\* the attributes a class body defines
ClassAttrs(cls) ==
    CASE cls = "TextPlugin" -> {Attr(<<"header">>, TRUE), Attr(<<"md">>, TRUE)}
      [] cls = "DataPlugin" -> {Attr(<<"table">>, TRUE)}
      [] cls = "ChartPlugin" -> {Attr(<<"figure">>, TRUE)}
      [] cls = "StatusPlugin" -> {Attr(<<"success">>, TRUE)}
      [] cls = "LayoutPlugin" -> {Attr(<<"expander">>, TRUE)}
      [] cls = "MediaPlugin" -> {Attr(<<"image">>, TRUE)}
      [] cls = "AnalyticsPlugin" -> {Attr(<<"stat">>, TRUE)}
      [] cls = "UtilityPlugin" -> {Attr(<<"write">>, TRUE)}
      [] cls = "OtherText" -> {Attr(<<"md">>, TRUE)}
      [] cls = "CustomHeader" -> {Attr(<<"header">>, TRUE)}
      [] cls = "PluginA" -> {Attr(<<"m">>, TRUE), Attr(<<"_", "private">>, TRUE),
                             Attr(<<"some_data">>, FALSE)}
      [] cls = "PluginB" -> {Attr(<<"m">>, TRUE)}
      [] OTHER -> {}

\* the class attribute `name`
ClassName(cls) ==
    CASE cls = "TextPlugin" -> "text"
      [] cls = "DataPlugin" -> "data"
      [] cls = "ChartPlugin" -> "charts"
      [] cls = "StatusPlugin" -> "status"
      [] cls = "LayoutPlugin" -> "layout"
      [] cls = "MediaPlugin" -> "media"
      [] cls = "AnalyticsPlugin" -> "analytics"
      [] cls = "UtilityPlugin" -> "utility"
      [] cls = "OtherText" -> "text"
      [] cls = "CustomHeader" -> "custom_header"
      [] cls = "PluginA" -> "plugin_a"
      [] cls = "PluginB" -> "plugin_b"
      [] OTHER -> ""

\* isinstance(cls, type) and issubclass(cls, PluginSpec)
IsPluginSpec(cls) == cls \in PluginClasses

BUILTIN_PLUGINS ==
    <<"TextPlugin", "DataPlugin", "ChartPlugin", "StatusPlugin", "LayoutPlugin",
      "MediaPlugin", "AnalyticsPlugin", "UtilityPlugin">>

\* dir() of an instance of cls
dir(cls) == ClassAttrs(cls) \cup PluginSpecAttrs

startswith(name, prefix) == name # <<>> /\ name[1] = prefix

get_methods_private_only(cls) ==
    LET base_attrs == {a.name : a \in PluginSpecAttrs}
    IN  {a.name : a \in {x \in dir(cls) : /\ startswith(x.name, "_")
                                            /\ x.name \notin base_attrs
                                            /\ x.callable}}

get_methods_not_callable(cls) ==
    LET base_attrs == {a.name : a \in PluginSpecAttrs}
    IN  {a.name : a \in {x \in dir(cls) : /\ ~startswith(x.name, "_")
                                            /\ x.name \notin base_attrs
                                            /\ ~x.callable}}

\* the keys of the dict get_methods returns; each value is the method cls has
\* under that name
get_methods(cls) ==
    LET base_attrs == {a.name : a \in PluginSpecAttrs}
    IN  {a.name : a \in {x \in dir(cls) : /\ ~startswith(x.name, "_")
                                            /\ x.name \notin base_attrs
                                            /\ x.callable}}

---------------------------------------------------------------------------
(* The global registry (plugins/_registry.py): a dict kept as the sequence  *)
(* of its <<key, value>> items in insertion order                           *)

Keys(d) == {d[i][1] : i \in DOMAIN d}

\* d[k] = v
DictSet(d, k, v) ==
    IF k \in Keys(d)
    THEN [i \in DOMAIN d |-> IF d[i][1] = k THEN <<k, v>> ELSE d[i]]
    ELSE Append(d, <<k, v>>)

\* d.pop(k, None)
DictPop(d, k) == SelectSeq(d, LAMBDA item : item[1] # k)

register_plugin_keep_first(registry, plugin_cls) ==
    IF ~IsPluginSpec(plugin_cls) THEN [registry |-> registry, raised |-> "TypeError"]
    ELSE IF ClassName(plugin_cls) = "" THEN [registry |-> registry, raised |-> "ValueError"]
    ELSE IF ClassName(plugin_cls) \in Keys(registry) THEN [registry |-> registry, raised |-> ""]
    ELSE [registry |-> DictSet(registry, ClassName(plugin_cls), plugin_cls), raised |-> ""]

register_plugin_store_first(registry, plugin_cls) ==
    IF ~IsPluginSpec(plugin_cls) THEN [registry |-> registry, raised |-> "TypeError"]
    ELSE [registry |-> DictSet(registry, ClassName(plugin_cls), plugin_cls),
          raised |-> IF ClassName(plugin_cls) = "" THEN "ValueError" ELSE ""]

register_plugin(registry, plugin_cls) ==
    IF ~IsPluginSpec(plugin_cls) THEN [registry |-> registry, raised |-> "TypeError"]
    ELSE IF ClassName(plugin_cls) = "" THEN [registry |-> registry, raised |-> "ValueError"]
    ELSE [registry |-> DictSet(registry, ClassName(plugin_cls), plugin_cls), raised |-> ""]

unregister_plugin(registry, name) == DictPop(registry, name)

\* dict(_global_registry): a new dict of the same items; alias says whether
\* the returned object is the catalogue itself
get_registered_plugins(registry) == [alias |-> FALSE, items |-> registry]

clear_registry(registry) == <<>>

RECURSIVE register_absent(_, _)
\* for plugin_cls in classes: if plugin_cls.name not in _global_registry: register_plugin
register_absent(registry, classes) ==
    IF classes = <<>> THEN registry
    ELSE register_absent(
            IF ClassName(Head(classes)) \notin Keys(registry)
            THEN register_plugin(registry, Head(classes)).registry
            ELSE registry,
            Tail(classes))

load_default_plugins_once(registry, discovered) ==
    IF registry # <<>> THEN registry
    ELSE register_absent(register_absent(registry, BUILTIN_PLUGINS), discovered)

\* discovered: what discover_entry_point_plugins returns
load_default_plugins(registry, discovered) ==
    register_absent(register_absent(registry, BUILTIN_PLUGINS), discovered)

\* the names the model registers and unregisters under
RegNames == ({ClassName(cls) : cls \in PluginClasses} \ {""}) \cup {"nonexistent"}

\* the first class of a list that carries the name
FirstNamed(classes, n) ==
    classes[CHOOSE i \in DOMAIN classes :
                /\ ClassName(classes[i]) = n
                /\ \A j \in 1..(i - 1) : ClassName(classes[j]) # n]

---------------------------------------------------------------------------
(* Binding bundles to a Notebook.  These steps are the specification's:     *)
(* apply bundle to instance, use, and the auto-load of construction.  A     *)
(* notebook is here the record [methods, plugins].                          *)

AttrNames == {a.name : a \in UNION {dir(cls) : cls \in PluginClasses}}

Unbound == ""

NewNotebook == [methods |-> [a \in AttrNames |-> Unbound], plugins |-> {}]

\* instantiate the bundle and bind every method of get_methods on the
\* notebook, over whatever the name was bound to
apply_plugin(nb, plugin_cls) ==
    [methods |-> [a \in AttrNames |->
                    IF a \in get_methods(plugin_cls) THEN plugin_cls ELSE nb.methods[a]],
     plugins |-> {b \in nb.plugins : b.name # ClassName(plugin_cls)}
                    \cup {[name |-> ClassName(plugin_cls), cls |-> plugin_cls]}]

use(nb, plugin_cls) ==
    IF ~IsPluginSpec(plugin_cls) THEN [nb |-> nb, raised |-> "TypeError"]
    ELSE [nb |-> apply_plugin(nb, plugin_cls), raised |-> ""]

RECURSIVE load_plugins(_, _)
\* apply every bundle of the catalogue, in the catalogue's order
load_plugins(nb, registry) ==
    IF registry = <<>> THEN nb
    ELSE load_plugins(apply_plugin(nb, Head(registry)[2]), Tail(registry))

\* Notebook(...): what construction binds
Notebook(registry) == load_plugins(NewNotebook, registry)

get_plugins_live(nb) ==
    {[name |-> item[1], cls |-> item[2]] : item \in Range(_global_registry)}

\* get-bound-bundles: a copy of the notebook's own map of bound bundles
get_plugins(nb) == nb.plugins

---------------------------------------------------------------------------
(* Inputs of the calls *)

\* what the caller passes and what the environment does to a write; in
\* ChartFiles <<>> stands for filename=None; RegisterPaths are the paths a
\* caller hands to AssetManager.register; ClassInputs the arguments of
\* register_plugin and use
Inputs ==
    [Texts |-> {<<"hello", " ">>, <<PLACEHOLDER>>},
     NoteTexts |-> {<<" ", "hello">>},
     Headings |-> {"Results"},
     FigureFiles |-> {<<Comp("a", ".png")>>, <<Dir("."), Comp("a", ".png")>>},
     CsvFiles |-> {<<Comp("b", ".csv")>>},
     ChartFiles |-> {<<>>, <<Comp("c", ".html")>>},
     WriteOutcomes |-> {"ok", "raises"},
     PlotFiles |-> {<<Comp("a", ".png")>>, <<Comp("c", ".html")>>},
     AltairFiles |-> {<<Comp("a", ".png")>>},
     ImageFiles |-> {<<Comp("a", ".png")>>},
     JsonFiles |-> {<<Comp("a", ".json")>>},
     RegisterPaths |-> {<<Comp("test", ".png")>>, <<Dir("assets"), Comp("a", ".png")>>},
     FigureOutcomes |-> {"ok", "no matplotlib", "savefig raises", "close raises"},
     CsvOutcomes |-> {"ok", "to_csv raises"},
     ImageOutcomes |-> {"source.save", "Image.fromarray", "pyplot", "raises"},
     ClassInputs |-> {"CustomHeader", "PluginA", "PluginB", "NoName", "str"}]

---------------------------------------------------------------------------
(* Caching (cache.py).  A key is the text _make_key hashes, a value the     *)
(* object a function body returned: [id, at], the serial number of the run  *)
(* and its time.  A MemoryStore is [_data, _max_entries, stats], _data the  *)
(* entries in dict order; a DiskStore is the set of its files.  An          *)
(* operation returns [self, ret].  CacheEntry.access_count and the stats    *)
(* of the DiskStore are counters nothing reads and are left out.            *)

\* an optional number is <<>> or <<number>>
None == <<>>

\* the instance of _Sentinel
_SENTINEL == [repr |-> "<CACHE_MISS>"]

CacheStats == [hits |-> 0, misses |-> 0, size |-> 0, evictions |-> 0]

CacheEntry(key, value, created_at, ttl, last_accessed) ==
    [key |-> key, value |-> value, created_at |-> created_at, ttl |-> ttl,
     last_accessed |-> last_accessed]

is_expired(entry, now) == entry.ttl # None /\ now - entry.created_at > entry.ttl[1]

\* the text whose sha256 is the key
_make_key(func, arg) == func \o ":" \o arg

MemoryStore(max_entries) ==
    [_data |-> <<>>, _max_entries |-> max_entries, stats |-> CacheStats]

\* the index of key in a dict, 0 when it is not there
Find(data, key) ==
    IF \E i \in DOMAIN data : data[i].key = key
    THEN CHOOSE i \in DOMAIN data : data[i].key = key ELSE 0

\* del data[key]
Del(data, key) == SelectSeq(data, LAMBDA e : e.key # key)

MemoryStore_get(self, key, now) ==
    LET i == Find(self._data, key)
    IN  IF i = 0
        THEN [self |-> [self EXCEPT !.stats.misses = @ + 1], ret |-> _SENTINEL]
        ELSE IF is_expired(self._data[i], now)
        THEN [self |-> [self EXCEPT !._data = Del(@, key),
                                    !.stats.misses = @ + 1,
                                    !.stats.evictions = @ + 1],
              ret |-> _SENTINEL]
        ELSE [self |-> [self EXCEPT !._data[i].last_accessed = now,
                                    !.stats.hits = @ + 1],
              ret |-> self._data[i].value]

\* sorted() is stable: entries of equal last_accessed stay in dict order
_maybe_evict(self) ==
    IF self._max_entries = None \/ Len(self._data) <= self._max_entries[1] THEN self
    ELSE LET data == self._data
             over == Len(data) - self._max_entries[1]
             before(j, i) == \/ data[j].last_accessed < data[i].last_accessed
                             \/ data[j].last_accessed = data[i].last_accessed /\ j < i
             rank(i) == Cardinality({j \in DOMAIN data : before(j, i)})
             popped == {data[i].key : i \in {i \in DOMAIN data : rank(i) < over}}
         IN  [self EXCEPT !._data = SelectSeq(@, LAMBDA e : e.key \notin popped),
                          !.stats.evictions = @ + over,
                          !.stats.size = self._max_entries[1]]

MemoryStore_put(self, key, value, ttl, now) ==
    LET i == Find(self._data, key)
        entry == CacheEntry(key, value, now, ttl, now)
        data == IF i = 0 THEN Append(self._data, entry) ELSE [self._data EXCEPT ![i] = entry]
    IN  _maybe_evict([self EXCEPT !._data = data, !.stats.size = Len(data)])

\* the .pkl and .meta files of the keys
DiskStore_get(self, key, now) ==
    IF ~\E f \in self : f.key = key THEN [self |-> self, ret |-> _SENTINEL]
    ELSE LET f == CHOOSE f \in self : f.key = key
         IN  IF f.ttl # None /\ now - f.created_at > f.ttl[1]
             THEN [self |-> self \ {f}, ret |-> _SENTINEL]
             ELSE [self |-> self, ret |-> f.value]

DiskStore_put(self, key, value, ttl, now) ==
    {f \in self : f.key # key}
        \cup {[key |-> key, value |-> value, created_at |-> now, ttl |-> ttl]}

\* the threads that call a cache_resource function
Threads == {"main", "worker"}

Idle == [pc |-> "idle", key |-> "", result |-> _SENTINEL]

\* a CacheManager is [_data_memory, _data_disk, _resource_memory]
CacheManager(files) ==
    [_data_memory |-> MemoryStore(None), _data_disk |-> files,
     _resource_memory |-> MemoryStore(None)]

get_data_counting_twice(mgr, key, now) ==
    LET m == MemoryStore_get(mgr._data_memory, key, now)
        d == DiskStore_get(mgr._data_disk, key, now)
    IN  IF m.ret # _SENTINEL
        THEN [self |-> [mgr EXCEPT !._data_memory = m.self], ret |-> m.ret]
        ELSE IF d.ret # _SENTINEL
        THEN [self |-> [mgr EXCEPT
                  !._data_memory = [MemoryStore_put(m.self, key, d.ret, None, now)
                                       EXCEPT !.stats.hits = @ + 1],
                  !._data_disk = d.self],
              ret |-> d.ret]
        ELSE [self |-> [mgr EXCEPT !._data_memory = m.self, !._data_disk = d.self],
              ret |-> _SENTINEL]

get_data(mgr, key, now) ==
    LET m == MemoryStore_get(mgr._data_memory, key, now)
        d == DiskStore_get(mgr._data_disk, key, now)
    IN  IF m.ret # _SENTINEL
        THEN [self |-> [mgr EXCEPT !._data_memory = m.self], ret |-> m.ret]
        ELSE IF d.ret # _SENTINEL
        THEN [self |-> [mgr EXCEPT
                  !._data_memory = [MemoryStore_put(m.self, key, d.ret, None, now)
                                       EXCEPT !.stats.misses = @ - 1,
                                              !.stats.hits = @ + 1],
                  !._data_disk = d.self],
              ret |-> d.ret]
        ELSE [self |-> [mgr EXCEPT !._data_memory = m.self, !._data_disk = d.self],
              ret |-> _SENTINEL]

put_data(mgr, key, value, ttl, persist, now) ==
    [mgr EXCEPT !._data_memory = MemoryStore_put(@, key, value, ttl, now),
                !._data_disk = IF persist THEN DiskStore_put(@, key, value, ttl, now)
                               ELSE @]

get_resource(mgr, key, now) == MemoryStore_get(mgr._resource_memory, key, now)

put_resource(mgr, key, value, ttl, now) ==
    [mgr EXCEPT !._resource_memory = MemoryStore_put(@, key, value, ttl, now)]

\* a decorated function is [name, ttl, max_entries, persist]; result is what
\* its body returns when it runs; the wrapper returns [self, ret, ran]
cache_data(mgr, fn, arg, result, now) ==
    LET key == _make_key(fn.name, arg)
        cached == get_data(mgr, key, now)
    IN  IF cached.ret # _SENTINEL
        THEN [self |-> cached.self, ret |-> cached.ret, ran |-> FALSE]
        ELSE [self |-> put_data(cached.self, key, result, fn.ttl, fn.persist, now),
              ret |-> result, ran |-> TRUE]

---------------------------------------------------------------------------
(* Column layout (core.py 534-553, 885-912; widgets.py 504-526).  A         *)
(* _ColumnGroup is [_n, open, log]: open is the index of the column whose   *)
(* with-block is running, log the history of the group.                     *)

render_columns_start(spec) ==
    <<"<!-- columns: ", ToString(IF spec.type = "int" THEN spec.v ELSE Len(spec.items)),
      " -->", "\n\n">>

render_column_separator == <<"| | |", "\n">>

render_columns_end == <<"<!-- /columns -->", "\n\n">>

NoGroup == [_n |-> None, open |-> None, log |-> <<>>]

_ColumnGroup(n) == [_n |-> <<n>>, open |-> None, log |-> <<>>]

\* Notebook.columns: [n, ret], the notebook and the group
columns(n, spec) ==
    [n |-> _w(n, render_columns_start(spec)),
     ret |-> _ColumnGroup(IF spec.type = "int" THEN spec.v ELSE Len(spec.items))]

col_enter_always_separated(n, index) == _w(n, render_column_separator)

\* _ColumnGroup.col up to the yield
col_enter(n, index) == IF index > 0 THEN _w(n, render_column_separator) ELSE n

\* _ColumnGroup.col after the yield
col_exit(n, self, index) == IF index = self._n[1] - 1 THEN _w(n, render_columns_end) ELSE n

\* no Runner.execute is in progress
NoRun == [pc |-> "idle"]

---------------------------------------------------------------------------
(* The state machine of one Notebook and its caller *)

NB == [started |-> _started, chunks |-> _chunks, counter |-> _counter,
       am |-> [artifacts |-> _artifacts, disk |-> disk]]

NoResult == [op |-> "", text |-> <<>>]

Call(op, ret, raised) ==
    [op |-> op, ret |-> ret, raised |-> raised, file |-> <<>>, before |-> NoResult,
     known |-> FALSE, closed |-> FALSE]

\* a call on the asset manager that ended as r
AssetCall(op, r) ==
    [Call(op, r.ret, r.raised) EXCEPT
        !.known = r.raised = "" /\ r.ret \in Range(_artifacts),
        !.closed = r.closed]

Finalizers == {"to_markdown", "save"}

\* the text a finalize call produced
FinText(call) == IF call.op = "save" THEN call.file ELSE call.ret

\* a finalize call that produced text
FinCall(op, ret, text) ==
    [Call(op, ret, "") EXCEPT !.file = IF op = "save" THEN text ELSE <<>>,
                              !.before = final]

\* the chunks a call appended, without the header when the call started the notebook
Content(n) ==
    LET new == SubSeq(n.chunks, Len(_chunks) + 1, Len(n.chunks))
    IN  IF ~_started /\ n.started THEN SubSeq(new, 4, Len(new)) ELSE new

Room(k) == Len(emitted) + Len(scopes) + k <= MaxContent

\* a call ends and leaves the notebook as n
Commit(n, call) ==
    /\ _started' = n.started
    /\ _chunks' = n.chunks
    /\ _counter' = n.counter
    /\ _artifacts' = n.am.artifacts
    /\ disk' = n.am.disk
    /\ emitted' = emitted \o Content(n)
    /\ headerAt' = IF ~_started /\ n.started THEN Len(_chunks) + 1 ELSE headerAt
    /\ lastCall' = call
    /\ final' = IF call.op \in Finalizers /\ call.raised = ""
                THEN [op |-> call.op, text |-> FinText(call)]
                ELSE IF n.chunks = _chunks /\ n.am.artifacts = _artifacts THEN final
                ELSE NoResult
    /\ UNCHANGED <<pluginVars, hostVars>>

InitVars ==
    /\ _started = FALSE
    /\ _chunks = <<>>
    /\ _counter = 0
    /\ _artifacts = <<>>
    /\ disk = {}
    /\ clock = 0
    /\ scopes = <<>>
    /\ final = NoResult
    /\ emitted = <<>>
    /\ headerAt = 0
    /\ directReg = {}
    /\ _global_registry = load_default_plugins(<<>>, <<>>)
    /\ constructed = FALSE
    /\ nb_methods = NewNotebook.methods
    /\ nb_plugins = NewNotebook.plugins
    /\ latest = [n \in RegNames |->
                    IF \E i \in DOMAIN BUILTIN_PLUGINS : ClassName(BUILTIN_PLUGINS[i]) = n
                    THEN FirstNamed(BUILTIN_PLUGINS, n) ELSE ""]
    /\ _data_memory = CacheManager({})._data_memory
    /\ _data_disk = {}
    /\ _resource_memory = CacheManager({})._resource_memory
    /\ threads = [t \in Threads |-> Idle]
    /\ bodies = <<>>
    /\ store = MemoryStore(None)
    /\ used = <<>>
    /\ cwd = "/home"
    /\ Notebook_w = "_w"
    /\ stream = <<>>
    /\ run = NoRun
    /\ group = NoGroup

Init ==
    /\ InitVars
    /\ lastCall = Call("__init__", <<>>, "")

Tick ==
    /\ clock < MaxClock
    /\ clock' = clock + 1
    /\ UNCHANGED <<_started, _chunks, _counter, _artifacts, disk, scopes,
                   lastCall, final, emitted, headerAt, directReg>>
    /\ UNCHANGED <<pluginVars, hostVars>>

EnsureStarted ==
    /\ Commit(_ensure_started(NB, clock), Call("_ensure_started", <<>>, ""))
    /\ UNCHANGED <<clock, scopes, directReg>>

Header ==
    \E text \in Inputs.Headings, divider \in BOOLEAN :
        /\ Room(1)
        /\ Commit(header(NB, clock, text, divider), Call("header", <<>>, ""))
        /\ UNCHANGED <<clock, scopes, directReg>>

Md ==
    \E text \in Inputs.Texts :
        /\ Room(1)
        /\ Commit(md(NB, text), Call("md", <<>>, ""))
        /\ UNCHANGED <<clock, scopes, directReg>>

Note ==
    \E text \in Inputs.NoteTexts :
        /\ Room(1)
        /\ Commit(note(NB, text), Call("note", <<>>, ""))
        /\ UNCHANGED <<clock, scopes, directReg>>

\* n.section(...) as a plain call
Section ==
    \E heading \in Inputs.Headings, description \in {"", "details"} :
        /\ Room(IF description = "" THEN 1 ELSE 2)
        /\ Commit(section(NB, clock, heading, description), Call("section", <<>>, ""))
        /\ UNCHANGED <<clock, scopes, directReg>>

\* with n.section(...): up to __enter__
SectionEnter ==
    \E heading \in Inputs.Headings :
        /\ Room(2)
        /\ Commit(section(NB, clock, heading, ""), Call("section", <<>>, ""))
        /\ scopes' = Append(scopes, "section")
        /\ UNCHANGED <<clock, directReg>>

\* with n.expander(...): up to the yield
ExpanderEnter ==
    \E expanded \in BOOLEAN :
        /\ Room(2)
        /\ Commit(_w(NB, render_expander_start("More", expanded)), Call("expander", <<>>, ""))
        /\ scopes' = Append(scopes, "expander")
        /\ UNCHANGED <<clock, directReg>>

\* what the exit of one with-block writes: _SectionContext.__exit__ writes its rule
\* whatever happened; the generator of expander() goes on after its yield only
\* when the body did not raise
exit_scope(n, kind, exc) ==
    IF kind = "section" THEN _w(n, <<"\n", "---", "\n\n">>)
    ELSE IF exc THEN n
    ELSE _w(n, render_expander_end)

RECURSIVE unwind(_, _)
unwind(n, open) ==
    IF open = <<>> THEN n
    ELSE unwind(exit_scope(n, open[Len(open)], TRUE), SubSeq(open, 1, Len(open) - 1))

\* the body of the innermost with-block ends
ExitScope ==
    /\ scopes # <<>>
    /\ Commit(exit_scope(NB, scopes[Len(scopes)], FALSE), Call("__exit__", <<>>, ""))
    /\ scopes' = SubSeq(scopes, 1, Len(scopes) - 1)
    /\ UNCHANGED <<clock, directReg>>

\* the body of the innermost with-block raises and nothing catches it
RaiseInScope ==
    /\ scopes # <<>>
    /\ Commit(unwind(NB, scopes), Call("__exit__", <<>>, "Exception"))
    /\ scopes' = <<>>
    /\ UNCHANGED <<clock, directReg>>

Figure ==
    \E filename \in Inputs.FigureFiles, outcome \in Inputs.FigureOutcomes :
        LET r == figure(NB, filename, "", outcome)
        IN  /\ Room(1)
            /\ Commit(r.n, AssetCall("figure", r))
            /\ UNCHANGED <<clock, scopes, directReg>>

ExportCsv ==
    \E filename \in Inputs.CsvFiles, outcome \in Inputs.CsvOutcomes :
        LET r == export_csv(NB, filename, outcome)
        IN  /\ Room(1)
            /\ Commit(r.n, AssetCall("export_csv", r))
            /\ UNCHANGED <<clock, scopes, directReg>>

PlotlyChart ==
    \E filename \in Inputs.ChartFiles, image_ok \in BOOLEAN, html_ok \in BOOLEAN :
        LET r == plotly_chart(NB, filename, image_ok, html_ok)
        IN  /\ Room(1)
            /\ filename = <<>> => _counter < MaxCounter
            /\ Commit(r.n, AssetCall("plotly_chart", r))
            /\ UNCHANGED <<clock, scopes, directReg>>

\* AssetManager.render_index, called on the notebook's asset manager
RenderIndex ==
    /\ Commit(NB, [Call("render_index", render_index(NB.am.artifacts), "") EXCEPT
                       !.before = IF lastCall.op = "render_index"
                                  THEN [op |-> "render_index", text |-> lastCall.ret]
                                  ELSE NoResult])
    /\ UNCHANGED <<clock, scopes, directReg>>

ToMarkdown ==
    LET r == to_markdown(NB, clock)
    IN  /\ Commit(r.n, FinCall("to_markdown", r.ret, r.ret))
        /\ UNCHANGED <<clock, scopes, directReg>>

\* out_path.write_text either writes the whole text or raises
Save ==
    \E write \in Inputs.WriteOutcomes :
        LET r == save(NB, clock)
        IN  /\ Commit(r.n, IF write = "ok" THEN FinCall("save", r.ret, r.text)
                           ELSE Call("save", <<>>, "OSError"))
            /\ UNCHANGED <<clock, scopes, directReg>>

Next ==
    \/ Tick
    \/ EnsureStarted
    \/ Header
    \/ Md
    \/ Note
    \/ Section
    \/ SectionEnter
    \/ ExpanderEnter
    \/ ExitScope
    \/ RaiseInScope
    \/ Figure
    \/ ExportCsv
    \/ PlotlyChart
    \/ RenderIndex
    \/ ToMarkdown
    \/ Save

Spec == Init /\ [][Next]_vars

---------------------------------------------------------------------------
(* The state machine of one AssetManager and its caller *)

\* a save_plotly or save_altair that ended as r: the filename asked for, which
\* of the exports (image, html, json) can succeed, the asset list before it
ExportCall(op, r, filename, ok) ==
    [args |-> [filename |-> filename, ok |-> ok, was |-> _artifacts]] @@ AssetCall(op, r)

\* a call on the asset manager ends as r
CommitAsset(op, r) ==
    /\ Len(r.am.artifacts) <= MaxAssets
    /\ Commit([NB EXCEPT !.am = r.am], AssetCall(op, r))

SaveFigure ==
    \E filename \in Inputs.FigureFiles, outcome \in Inputs.FigureOutcomes :
        /\ CommitAsset("save_figure", save_figure(NB.am, filename, outcome))
        /\ UNCHANGED <<clock, scopes, directReg>>

SaveCsv ==
    \E filename \in Inputs.CsvFiles, outcome \in Inputs.CsvOutcomes :
        /\ CommitAsset("save_csv", save_csv(NB.am, filename, outcome))
        /\ UNCHANGED <<clock, scopes, directReg>>

SavePlotly ==
    \E filename \in Inputs.PlotFiles, image_ok \in BOOLEAN, html_ok \in BOOLEAN :
        LET r == save_plotly(NB.am, filename, image_ok, html_ok)
        IN  /\ Len(r.am.artifacts) <= MaxAssets
            /\ Commit([NB EXCEPT !.am = r.am],
                      ExportCall("save_plotly", r, filename, <<image_ok, html_ok>>))
            /\ UNCHANGED <<clock, scopes, directReg>>

SaveAltair ==
    \E filename \in Inputs.AltairFiles, image_ok \in BOOLEAN, html_ok \in BOOLEAN,
       json_ok \in BOOLEAN :
        LET r == save_altair(NB.am, filename, image_ok, html_ok, json_ok)
        IN  /\ Len(r.am.artifacts) <= MaxAssets
            /\ Commit([NB EXCEPT !.am = r.am],
                      ExportCall("save_altair", r, filename, <<image_ok, html_ok, json_ok>>))
            /\ UNCHANGED <<clock, scopes, directReg>>

SaveImage ==
    \E filename \in Inputs.ImageFiles, outcome \in Inputs.ImageOutcomes :
        /\ CommitAsset("save_image", save_image(NB.am, filename, outcome))
        /\ UNCHANGED <<clock, scopes, directReg>>

SaveJson ==
    \E filename \in Inputs.JsonFiles, ok \in BOOLEAN :
        /\ CommitAsset("save_json", save_json(NB.am, filename, ok))
        /\ UNCHANGED <<clock, scopes, directReg>>

\* AssetManager.register called by the caller itself
Register ==
    \E rel \in Inputs.RegisterPaths :
        LET am == register(NB.am, rel)
        IN  /\ Len(am.artifacts) <= MaxAssets
            /\ Commit([NB EXCEPT !.am = am],
                      [Call("register", <<>>, "") EXCEPT !.known = rel \in Range(_artifacts)])
            /\ directReg' = directReg \cup {rel}
            /\ UNCHANGED <<clock, scopes>>

NextAssets ==
    \/ SaveFigure
    \/ SaveCsv
    \/ SavePlotly
    \/ SaveAltair
    \/ SaveImage
    \/ SaveJson
    \/ Register
    \/ RenderIndex

SpecAssets == Init /\ [][NextAssets]_vars

---------------------------------------------------------------------------
(* Properties of the AssetManager *)

NoDup(s) == \A i, j \in DOMAIN s : s[i] = s[j] => i = j

SaveOps == {"save_figure", "save_csv", "save_plotly", "save_altair", "save_image",
            "save_json"}

\* C3: no path is in the asset list twice; an entry stays where its first
\* registration put it; a register or save-* call for a path that is in the
\* list already returns normally and leaves the list as it was.
C3_NoDuplicateAssets ==
    /\ [](NoDup(_artifacts))
    /\ [][IsPrefix(_artifacts, _artifacts')]_vars
    /\ [][lastCall'.known => lastCall'.raised = "" /\ _artifacts' = _artifacts]_vars

\* a.png saved again after other paths were registered behind it
C3_Witness ==
    /\ lastCall.op = "save_figure" /\ lastCall.known
    /\ Len(_artifacts) = MaxAssets /\ _artifacts[1] = lastCall.ret

\* C8 as the specification states it: a path is in the asset list if and only
\* if its file was written.
C8_ListedIffWritten ==
    \A p \in Range(_artifacts) \cup disk : p \in Range(_artifacts) <=> p \in disk

\* C8, amended: every path in the asset list was written by a save-* call or
\* handed to register() by the caller; a save-* call that returns normally has
\* written the file of the path it returns and that path is in the list; a
\* save-* call that raises leaves the list unchanged.
C8_ListedWrittenOrRegistered ==
    /\ [](\A p \in Range(_artifacts) : p \in disk \/ p \in directReg)
    /\ [](lastCall.op \in SaveOps /\ lastCall.raised = ""
            => lastCall.ret \in Range(_artifacts) /\ lastCall.ret \in disk)
    /\ [][lastCall'.op \in SaveOps /\ lastCall'.raised # ""
            => _artifacts' = _artifacts]_vars

\* a save that raised after its file was written, next to a path that was
\* registered without a file
C8_Witness ==
    /\ lastCall.op = "save_figure" /\ lastCall.raised = "TypeError"
    /\ \E p \in Range(_artifacts) : p \notin disk
    /\ \E p \in disk : p \notin Range(_artifacts)

\* the exports a save_plotly or save_altair call is to try, in order
Attempts(call) ==
    LET filename == call.args.filename
        ok == call.args.ok
    IN  <<[path |-> assets_dir \o filename,
           ok |-> IF endswith(filename, ".html") THEN ok[2] ELSE ok[1]],
          [path |-> assets_dir \o WithSuffix(filename, ".html"), ok |-> ok[2]]>>
        \o IF call.op = "save_altair"
           THEN <<[path |-> assets_dir \o WithSuffix(filename, ".json"), ok |-> ok[3]]>>
           ELSE <<>>

\* C28: save_plotly and save_altair try the requested filename, then
\* <stem>.html, and save_altair then <stem>.json; a call returns the path of
\* the first export that succeeds, whose file is written, and registers that
\* path and no other; when every export fails the call raises and registers
\* nothing
C28_ExportFallback ==
    lastCall.op \in {"save_plotly", "save_altair"} =>
        LET tries == Attempts(lastCall)
            good == {i \in DOMAIN tries : tries[i].ok}
            was == lastCall.args.was
        IN  IF good = {}
            THEN lastCall.raised # "" /\ _artifacts = was
            ELSE LET first == CHOOSE i \in good : \A j \in good : i <= j
                     produced == rel_path(tries[first].path)
                 IN  /\ lastCall.raised = ""
                     /\ lastCall.ret = produced
                     /\ produced \in disk
                     /\ _artifacts = IF produced \in Range(was) THEN was
                                     ELSE Append(was, produced)

\* save_altair fell back twice and registered the .json file
C28_Witness ==
    /\ lastCall.op = "save_altair" /\ lastCall.raised = ""
    /\ lastCall.args.ok = <<FALSE, FALSE, TRUE>>
    /\ endswith(lastCall.ret, ".json")
    /\ lastCall.ret \in Range(_artifacts) \ Range(lastCall.args.was)

---------------------------------------------------------------------------
(* The state machine of the registry, one Notebook and their caller *)

\* was: the methods of the notebook before a use; before: the catalogue before
\* a load_default_plugins
PluginCall(op, arg, raised) ==
    [op |-> op, arg |-> arg, raised |-> raised,
     was |-> IF op = "use" THEN nb_methods ELSE NewNotebook.methods,
     before |-> IF op = "load_default_plugins" THEN _global_registry ELSE <<>>]

\* latest is history: the class each name was last registered under and not
\* since removed, "" for none
Registered(plugin_cls) == [latest EXCEPT ![ClassName(plugin_cls)] = plugin_cls]

RegisterPlugin ==
    \E plugin_cls \in Inputs.ClassInputs :
        LET r == register_plugin(_global_registry, plugin_cls)
        IN  /\ _global_registry' = r.registry
            /\ latest' = IF r.raised = "" THEN Registered(plugin_cls) ELSE latest
            /\ lastCall' = PluginCall("register_plugin", plugin_cls, r.raised)
            /\ UNCHANGED <<bindVars, reportVars, hostVars>>

\* register_plugin of a bundle that carries a built-in's name
RegisterOverride ==
    \E plugin_cls \in {"OtherText", "TextPlugin"} :
        LET r == register_plugin(_global_registry, plugin_cls)
        IN  /\ _global_registry' = r.registry
            /\ latest' = IF r.raised = "" THEN Registered(plugin_cls) ELSE latest
            /\ lastCall' = PluginCall("register_plugin", plugin_cls, r.raised)
            /\ UNCHANGED <<bindVars, reportVars, hostVars>>

UnregisterPlugin ==
    \E name \in {"text", "custom_header", "plugin_a", "plugin_b"} :
        /\ _global_registry' = unregister_plugin(_global_registry, name)
        /\ latest' = [latest EXCEPT ![name] = ""]
        /\ lastCall' = PluginCall("unregister_plugin", name, "")
        /\ UNCHANGED <<bindVars, reportVars, hostVars>>

\* unregister_plugin of another built-in, and of a name never registered
UnregisterBuiltin ==
    \E name \in {"data", "nonexistent"} :
        /\ _global_registry' = unregister_plugin(_global_registry, name)
        /\ latest' = [latest EXCEPT ![name] = ""]
        /\ lastCall' = PluginCall("unregister_plugin", name, "")
        /\ UNCHANGED <<bindVars, reportVars, hostVars>>

ClearRegistry ==
    /\ _global_registry' = clear_registry(_global_registry)
    /\ latest' = [n \in RegNames |-> ""]
    /\ lastCall' = PluginCall("clear_registry", "", "")
    /\ UNCHANGED <<bindVars, reportVars, hostVars>>

\* arg: the class entry-point discovery found, "" for none
LoadDefaultPlugins ==
    \E found \in {"", "PluginB"} :
        LET discovered == IF found = "" THEN <<>> ELSE <<found>>
            offered == BUILTIN_PLUGINS \o discovered
        IN  /\ _global_registry' = load_default_plugins(_global_registry, discovered)
            /\ latest' = [n \in RegNames |->
                            IF latest[n] # "" THEN latest[n]
                            ELSE IF \E i \in DOMAIN offered : ClassName(offered[i]) = n
                                 THEN FirstNamed(offered, n) ELSE ""]
            /\ lastCall' = PluginCall("load_default_plugins", found, "")
            /\ UNCHANGED <<bindVars, reportVars, hostVars>>

\* copy = get_registered_plugins(), and the caller may then copy.clear()
GetRegisteredPlugins ==
    \E clears \in BOOLEAN :
        LET copy == get_registered_plugins(_global_registry)
        IN  /\ _global_registry' = IF clears /\ copy.alias THEN <<>> ELSE _global_registry
            /\ lastCall' = PluginCall("get_registered_plugins",
                                      IF clears THEN "clear" ELSE "", "")
            /\ UNCHANGED <<bindVars, latest, reportVars, hostVars>>

\* a Notebook is constructed; the model follows the newest one
Construct ==
    LET nb == Notebook(_global_registry)
    IN  /\ constructed' = TRUE
        /\ nb_methods' = nb.methods
        /\ nb_plugins' = nb.plugins
        /\ lastCall' = PluginCall("Notebook", "", "")
        /\ UNCHANGED <<_global_registry, latest, reportVars, hostVars>>

Use ==
    \E plugin_cls \in Inputs.ClassInputs :
        LET r == use([methods |-> nb_methods, plugins |-> nb_plugins], plugin_cls)
        IN  /\ constructed
            /\ nb_methods' = r.nb.methods
            /\ nb_plugins' = r.nb.plugins
            /\ lastCall' = PluginCall("use", plugin_cls, r.raised)
            /\ UNCHANGED <<_global_registry, latest, constructed, reportVars, hostVars>>

NextPlugins ==
    \/ RegisterPlugin
    \/ UnregisterPlugin
    \/ ClearRegistry
    \/ Construct
    \/ Use

SpecPlugins == Init /\ [][NextPlugins]_vars

\* the catalogue's own calls
NextRegistry ==
    \/ RegisterPlugin
    \/ RegisterOverride
    \/ UnregisterPlugin
    \/ UnregisterBuiltin
    \/ ClearRegistry
    \/ LoadDefaultPlugins
    \/ GetRegisteredPlugins

SpecRegistry == Init /\ [][NextRegistry]_vars

---------------------------------------------------------------------------
(* Properties of the catalogue *)

\* d.get(k), "" for None
DictGet(d, k) ==
    IF k \in Keys(d) THEN d[CHOOSE i \in DOMAIN d : d[i][1] = k][2] ELSE ""

CatalogueMatchesHistory ==
    /\ \A n \in RegNames : DictGet(_global_registry, n) = latest[n]
    /\ \A i \in DOMAIN _global_registry :
        /\ _global_registry[i][1] # ""
        /\ _global_registry[i][1] = ClassName(_global_registry[i][2])
        /\ \A j \in DOMAIN _global_registry :
              _global_registry[j][1] = _global_registry[i][1] => j = i

CatalogueStep ==
    /\ lastCall'.op = "register_plugin" /\ ClassName(lastCall'.arg) \in Keys(_global_registry)
            => lastCall'.raised = ""
    /\ lastCall'.op = "unregister_plugin" /\ lastCall'.arg \notin Keys(_global_registry)
            => _global_registry' = _global_registry /\ lastCall'.raised = ""
    /\ lastCall'.op = "get_registered_plugins"
            => _global_registry' = _global_registry

\* C12: after any calls of the catalogue, each name maps to the class last
\* registered under it and not since unregistered or cleared, and to nothing
\* otherwise; every key is the non-empty name of its class and occurs once;
\* registering over an existing name is no error; unregister_plugin of an
\* absent name changes nothing; clearing the dict get_registered_plugins
\* returned leaves the catalogue as it was.
C12_Catalogue == []CatalogueMatchesHistory /\ [][CatalogueStep]_vars

\* OtherText registered over the TextPlugin of the package import, in place
C12_Witness ==
    /\ lastCall.op = "register_plugin" /\ lastCall.arg = "OtherText"
    /\ Len(_global_registry) >= 8
    /\ _global_registry[1] = <<"text", "OtherText">>

\* C13: register_plugin of something that is no PluginSpec subclass raises
\* TypeError, of a subclass with an empty name ValueError, of any other
\* class nothing; a call that raised left the catalogue as it was.
C13_RegisterErrors ==
    [][lastCall'.op = "register_plugin" =>
        /\ lastCall'.arg = "str" => lastCall'.raised = "TypeError"
        /\ lastCall'.arg = "NoName" => lastCall'.raised = "ValueError"
        /\ lastCall'.arg \notin {"str", "NoName"} => lastCall'.raised = ""
        /\ lastCall'.raised # "" => _global_registry' = _global_registry]_vars

\* the nameless class refused while the catalogue holds entries, none of
\* them under the empty name
C13_Witness ==
    /\ lastCall.op = "register_plugin" /\ lastCall.arg = "NoName"
    /\ lastCall.raised = "ValueError"
    /\ _global_registry # <<>> /\ "" \notin Keys(_global_registry)

BuiltinNames ==
    {"text", "data", "charts", "status", "layout", "media", "analytics", "utility"}

AfterLoad ==
    lastCall.op = "load_default_plugins" =>
        /\ BuiltinNames \subseteq Keys(_global_registry)
        /\ \A n \in Keys(lastCall.before) :
              DictGet(_global_registry, n) = DictGet(lastCall.before, n)
        /\ \A i \in DOMAIN BUILTIN_PLUGINS :
              ClassName(BUILTIN_PLUGINS[i]) \notin Keys(lastCall.before)
                => DictGet(_global_registry, ClassName(BUILTIN_PLUGINS[i])) = BUILTIN_PLUGINS[i]

LoadAgain ==
    /\ lastCall.op = "load_default_plugins" /\ lastCall'.op = "load_default_plugins"
    /\ lastCall'.arg = lastCall.arg

\* C14: after load_default_plugins the eight built-in names are in the
\* catalogue, every entry the catalogue had is the same, and each built-in
\* whose name was missing is there again; a second call that discovers the
\* same entry points leaves the catalogue unchanged.
C14_LoadDefault ==
    []AfterLoad /\ [][LoadAgain => _global_registry' = _global_registry]_vars

\* "data" was unregistered and "text" taken by OtherText: the load restored
\* DataPlugin and left OtherText
C14_Witness ==
    /\ lastCall.op = "load_default_plugins"
    /\ "data" \notin Keys(lastCall.before)
    /\ DictGet(lastCall.before, "text") = "OtherText"
    /\ DictGet(_global_registry, "data") = "DataPlugin"
    /\ DictGet(_global_registry, "text") = "OtherText"

---------------------------------------------------------------------------
(* Properties of the binding *)

\* cls defines a public method called a
Defines(cls, a) == a[1] # "_" /\ Attr(a, TRUE) \in ClassAttrs(cls)

\* the class of the last item of the catalogue that defines a, Unbound if none does
LastDefining(registry, a) ==
    LET at == {i \in DOMAIN registry : Defines(registry[i][2], a)}
    IN  IF at = {} THEN Unbound
        ELSE registry[CHOOSE i \in at : \A j \in at : j <= i][2]

NBP == [methods |-> nb_methods, plugins |-> nb_plugins]

---------------------------------------------------------------------------
(* Tables (emitters.py).  A Python value is a record tagged with its type;  *)
(* a str or int carries the text str() gives, a list its items, a dict its  *)
(* <<key, value>> pairs in insertion order.  A DataFrame carries its column *)
(* labels and its rows of cells; PyNone in a cell is a missing value.       *)

PyStr(text) == [type |-> "str", v |-> text]

PyInt(text) == [type |-> "int", v |-> text]

PyNone == [type |-> "None"]

PyList(items) == [type |-> "list", items |-> items]

PyDict(pairs) == [type |-> "dict", pairs |-> pairs]

DataFrame(names, rows) == [type |-> "DataFrame", columns |-> names, rows |-> rows]

\* str(v) of a cell
str(v) == IF v.type \in {"str", "int"} THEN v.v ELSE IF v.type = "None" THEN "nan" ELSE v.type

\* the types of the model that have len() and can be iterated
Sized(v) == v.type \in {"list", "dict"}

len(v) == IF v.type = "list" THEN Len(v.items) ELSE Len(v.pairs)

\* list(v): the items of a list, the keys of a dict
list(v) ==
    IF v.type = "list" THEN v.items
    ELSE [i \in DOMAIN v.pairs |-> PyStr(v.pairs[i][1])]

Max(S) == CHOOSE x \in S : \A y \in S : y <= x

Min(S) == CHOOSE x \in S : \A y \in S : x <= y

\* what _normalize_table_data gives: (headers, rows), None, or an exception
Normalised(headers, rows) ==
    [kind |-> "table", headers |-> headers, rows |-> rows, raised |-> ""]

NormaliseRaised(exc) ==
    [kind |-> IF exc = "" THEN "None" ELSE "raised", headers |-> <<>>, rows |-> <<>>,
     raised |-> exc]

\* columns is None, as in every call of the package
_normalize_table_data(data) ==
    IF data.type = "list" /\ data.items # <<>> /\ data.items[1].type = "dict"
    THEN LET first == data.items[1].pairs
             headers == [i \in DOMAIN first |-> first[i][1]]
         IN  IF \E r \in DOMAIN data.items : data.items[r].type # "dict"
             THEN NormaliseRaised("AttributeError")
             ELSE Normalised(headers,
                    [r \in DOMAIN data.items |->
                        [j \in DOMAIN headers |->
                            IF headers[j] \in Keys(data.items[r].pairs)
                            THEN DictGet(data.items[r].pairs, headers[j])
                            ELSE PyStr("")]])
    ELSE IF data.type = "list" /\ data.items # <<>> /\ data.items[1].type = "list"
    THEN IF \E r \in DOMAIN data.items : ~Sized(data.items[r])
         THEN NormaliseRaised("TypeError")
         ELSE LET ncols == Max({len(data.items[r]) : r \in DOMAIN data.items})
              IN  Normalised([i \in 1..ncols |-> "col_" \o ToString(i - 1)],
                             [r \in DOMAIN data.items |-> list(data.items[r])])
    ELSE IF data.type = "dict" /\ data.pairs # <<>>
    THEN LET headers == [i \in DOMAIN data.pairs |-> data.pairs[i][1]]
             values == [i \in DOMAIN data.pairs |-> data.pairs[i][2]]
         IN  IF \E i \in DOMAIN values : ~Sized(values[i])
             THEN NormaliseRaised("TypeError")
             ELSE IF \E i, j \in DOMAIN values : len(values[i]) # len(values[j])
             THEN NormaliseRaised("ValueError")
             ELSE Normalised(headers,
                    [r \in 1..len(values[1]) |->
                        [c \in DOMAIN values |-> list(values[c])[r]]])
    ELSE NormaliseRaised("")

RECURSIVE sep_join(_, _)
\* sep.join(parts), token by token
sep_join(sep, parts) ==
    IF parts = <<>> THEN <<>>
    ELSE IF Len(parts) = 1 THEN <<parts[1]>>
    ELSE <<parts[1], sep>> \o sep_join(sep, Tail(parts))

\* "| " + " | ".join(cells) + " |"
table_line(cells) == <<"| ">> \o sep_join(" | ", cells) \o <<" |">>

RECURSIVE newline_join(_)
\* "\n".join(lines), each line a sequence of tokens
newline_join(lines) ==
    IF lines = <<>> THEN <<>>
    ELSE IF Len(lines) = 1 THEN lines[1]
    ELSE lines[1] \o <<"\n">> \o newline_join(Tail(lines))

\* the rows hold the text of their cells
_render_md_table(headers, rows) ==
    newline_join(<<table_line(headers), table_line([i \in DOMAIN headers |-> "---"])>>
                 \o [r \in DOMAIN rows |-> table_line(rows[r])])
    \o <<"\n">>

slice_all(rows, n) == rows

\* rows[:n] and DataFrame.head(n)
Slice(rows, n) ==
    IF n >= 0 THEN SubSeq(rows, 1, Min({n, Len(rows)}))
    ELSE SubSeq(rows, 1, Max({0, Len(rows) + n}))

\* the one character U+2026
ELLIPSIS == "<U+2026>"

UNSUPPORTED_NOTE ==
    "> **Note:** Unsupported data type. Pass a list of dicts, list of lists, a column-oriented dict, or install pandas for DataFrame support."

Rendered(text) == [ret |-> text, raised |-> ""]

shape_line(nrows, ncols) ==
    <<"_shape: ", ToString(nrows), " rows <U+00D7> ", ToString(ncols), " cols_", "\n\n">>

cell_texts(rows) == [r \in DOMAIN rows |-> [c \in DOMAIN rows[r] |-> str(rows[r][c])]]

\* pd: pandas is installed.  DataFrame.to_markdown(index=False) is taken as
\* the pipe table without the padding tabulate adds
render_table(data, name, max_rows, pd) ==
    LET chunks == <<"#### ", name, "\n\n">>
    IN  IF pd /\ data.type = "DataFrame"
        THEN LET nrows == Len(data.rows)
                 ncols == Len(data.columns)
                 head == cell_texts(Slice(data.rows, max_rows))
                 view == IF nrows > max_rows
                         THEN Append(head, [c \in 1..ncols |-> ELLIPSIS])
                         ELSE head
             IN  Rendered(chunks \o _render_md_table(data.columns, view) \o <<"\n">>
                          \o shape_line(nrows, ncols))
        ELSE LET normalised == _normalize_table_data(data)
             IN  IF normalised.kind = "raised" THEN [ret |-> <<>>, raised |-> normalised.raised]
                 ELSE IF normalised.kind = "table"
                 THEN LET nrows == Len(normalised.rows)
                          ncols == Len(normalised.headers)
                          head == cell_texts(Slice(normalised.rows, max_rows))
                          view == IF nrows > max_rows
                                  THEN Append(head, [c \in 1..ncols |-> ELLIPSIS])
                                  ELSE head
                      IN  Rendered(chunks \o _render_md_table(normalised.headers, view)
                                   \o <<"\n">> \o shape_line(nrows, ncols))
                 ELSE Rendered(chunks \o <<UNSUPPORTED_NOTE, "\n\n">>)

NO_PANDAS_NOTE == "> **Note:** pandas not installed; cannot generate summary."

NOT_DATAFRAME_NOTE == "> **Note:** Object is not a pandas DataFrame."

\* nulls of column c
null_count(df, c) == Cardinality({r \in DOMAIN df.rows : df.rows[r][c].type = "None"})

\* f"{cnt / nrows * 100:.1f}%"
pct_text(cnt, nrows) ==
    LET tenths == (2000 * cnt + nrows) \div (2 * nrows)
    IN  <<ToString(tenths \div 10), ".", ToString(tenths % 10), "%">>

RECURSIVE null_lines(_, _)
\* one line per column that has nulls; the DataFrames of the model have them
\* in one column at most, which leaves sort_values nothing to order
null_lines(df, c) ==
    IF c > Len(df.columns) THEN <<>>
    ELSE (IF null_count(df, c) > 0
          THEN <<"| ", df.columns[c], " | ", ToString(null_count(df, c)), " | ">>
               \o pct_text(null_count(df, c), Len(df.rows)) \o <<" |", "\n">>
          ELSE <<>>)
         \o null_lines(df, c + 1)

\* the cells of the model's DataFrames are text, so there is no numeric
\* column and no stats table
render_summary(df_obj, title_, pd) ==
    IF ~pd THEN Rendered(<<NO_PANDAS_NOTE, "\n\n">>)
    ELSE IF df_obj.type # "DataFrame" THEN Rendered(<<NOT_DATAFRAME_NOTE, "\n\n">>)
    ELSE LET nrows == Len(df_obj.rows)
             ncols == Len(df_obj.columns)
             nulls == null_lines(df_obj, 1)
         IN  Rendered(
                <<"#### ", title_, "\n\n">>
                \o <<"- **Shape**: ", ToString(nrows), " rows <U+00D7> ", ToString(ncols), " cols", "\n">>
                \o <<"- **Columns**: ">> \o sep_join(", ", Slice(df_obj.columns, 20))
                \o (IF ncols > 20 THEN <<" <U+2026> (+", ToString(ncols - 20), " more)">> ELSE <<>>)
                \o <<"\n\n">>
                \o (IF nulls # <<>>
                    THEN <<"**Top null columns:**", "\n\n",
                           "| Column | Nulls | % |", "\n", "| --- | --- | --- |", "\n">>
                         \o nulls \o <<"\n">>
                    ELSE <<>>))

---------------------------------------------------------------------------
(* Metrics (widgets.py).  A delta is [type, tokens]: tokens are the pieces  *)
(* of str(delta), a sign, a number, or other text.                          *)

Delta(type, tokens) == [type |-> type, tokens |-> tokens]

\* float(x) of the text x: after the surrounding whitespace an optional sign
\* and one number; sign is -1, 0 or 1
float_of_text(tokens) ==
    LET t == strip(tokens)
        digits == IF t # <<>> /\ t[1] \in {"+", "-"} THEN Tail(t) ELSE t
    IN  IF Len(digits) = 1 /\ digits[1] \in {"0", "3", "5", "12", "0.3"}
        THEN [raised |-> "",
              sign |-> IF digits[1] = "0" THEN 0 ELSE IF t[1] = "-" THEN -1 ELSE 1]
        ELSE [raised |-> "ValueError", sign |-> 0]

\* float(delta)
float(delta) ==
    IF delta.type \in {"int", "str"} THEN float_of_text(delta.tokens)
    ELSE [raised |-> "TypeError", sign |-> 0]

UP_ARROW == "<U+25B2> "

DOWN_ARROW == "<U+25BC> "

arrow_as_normal(delta_color, sign) ==
    IF delta_color = "off" THEN <<>>
    ELSE IF sign > 0 THEN <<UP_ARROW>>
    ELSE IF sign < 0 THEN <<DOWN_ARROW>>
    ELSE <<>>

\* the if/elif chain that picks the arrow
arrow(delta_color, sign) ==
    IF delta_color = "off" THEN <<>>
    ELSE IF (delta_color = "normal" /\ sign > 0) \/ (delta_color = "inverse" /\ sign < 0)
    THEN <<UP_ARROW>>
    ELSE IF (delta_color = "normal" /\ sign < 0) \/ (delta_color = "inverse" /\ sign > 0)
    THEN <<DOWN_ARROW>>
    ELSE <<>>

\* delta: [type |-> "None"] for None
render_metric(label, value, delta, delta_color) ==
    LET lines == <<<<"| **", label, "** |">>, <<"| :---: |">>, <<"| **", value, "** |">>>>
        num == float(delta)
        delta_line == IF num.raised = ""
                      THEN <<"| ">> \o arrow(delta_color, num.sign) \o delta.tokens \o <<" |">>
                      ELSE <<"| ">> \o delta.tokens \o <<" |">>
    IN  Rendered(newline_join(lines
                              \o (IF delta.type # "None" THEN <<delta_line>> ELSE <<>>)
                              \o <<<<>>, <<>>>>))

\* "|" + "|".join(cells) + "|"
row_line(cells) == <<"|">> \o join([i \in DOMAIN cells |-> cells[i] \o <<"|">>])

\* a metric is [label, value, delta, delta_color]; delta_color "" stands for
\* a dict without that key
render_metric_row(metrics) ==
    IF metrics = <<>> THEN Rendered(<<>>)
    ELSE LET has_any_delta == \E i \in DOMAIN metrics : metrics[i].delta.type # "None"
             delta_cell(m) ==
                LET delta_color == IF m.delta_color = "" THEN "normal" ELSE m.delta_color
                    stripped == strip(replace(replace(m.delta.tokens, "%", <<>>), ",", <<>>))
                    cleaned == IF stripped # <<>> /\ stripped[1] = "+"
                               THEN Tail(stripped) ELSE stripped
                    num == float(Delta(m.delta.type, cleaned))
                IN  IF m.delta.type = "None" THEN <<" <U+2014> ">>
                    ELSE IF num.raised = ""
                    THEN <<" ">> \o arrow(delta_color, num.sign) \o m.delta.tokens \o <<" ">>
                    ELSE <<" ">> \o m.delta.tokens \o <<" ">>
         IN  Rendered(newline_join(
                <<row_line([i \in DOMAIN metrics |-> <<" **", metrics[i].label, "** ">>]),
                  row_line([i \in DOMAIN metrics |-> <<" :---: ">>]),
                  row_line([i \in DOMAIN metrics |-> <<" **", metrics[i].value, "** ">>])>>
                \o (IF has_any_delta
                    THEN <<row_line([i \in DOMAIN metrics |-> delta_cell(metrics[i])])>>
                    ELSE <<>>)
                \o <<<<>>, <<>>>>))

---------------------------------------------------------------------------
(* The renderers as calls: the arguments of one call are drawn, and the     *)
(* step is the call; lastCall holds the arguments and what the call         *)
(* returned or raised.                                                      *)

\* Lists: lists of mapping rows, sequence rows of two lengths and bare
\* numbers; ColumnDicts: column-oriented dicts; Deltas: None, numbers, text
\* float() accepts, text it refuses, and a list
RenderInputs ==
    LET RowElems == {PyDict(<<<<"a", PyStr("1")>>>>), PyList(<<PyStr("1"), PyStr("2")>>),
                     PyList(<<PyStr("3")>>), PyInt("5")}
        ColumnValues == {PyList(<<>>), PyList(<<PyStr("1")>>),
                         PyList(<<PyStr("1"), PyStr("2")>>), PyInt("5")}
        FrameRows == {<<PyStr("1"), PyStr("2")>>, <<PyStr("3"), PyNone>>}
        Deltas == {Delta("None", <<>>), Delta("int", <<"5">>), Delta("int", <<"-", "3">>),
                   Delta("int", <<"0">>), Delta("str", <<"+", "12", "%">>),
                   Delta("str", <<"+", "12">>), Delta("str", <<"-", "0.3", "%">>),
                   Delta("str", <<"n/a">>), Delta("list", <<"[1]">>)}
    IN  [Lists |-> {PyList(items) :
                        items \in UNION {[1..n -> RowElems] : n \in 0..MaxRows}},
         ColumnDicts |-> {PyDict(<<<<"a", x>>>>) : x \in ColumnValues}
                         \cup {PyDict(<<<<"a", x>>, <<"b", y>>>>) :
                                    x \in ColumnValues, y \in ColumnValues},
         DataFrames |-> {DataFrame(<<"a", "b">>, rows) :
                            rows \in UNION {[1..n -> FrameRows] : n \in 0..MaxRows}},
         Others |-> {PyStr("abc"), PyInt("5"), PyDict(<<>>), [type |-> "object"], PyNone},
         Metrics |-> {[label |-> "Revenue", value |-> "$1.2M", delta |-> d,
                       delta_color |-> c] :
                            d \in Deltas, c \in {"normal", "inverse", "off"}}
                     \cup {[label |-> "Users", value |-> "3,400", delta |-> d,
                            delta_color |-> ""] : d \in Deltas}]

Pending(op, args) == [op |-> op, args |-> args, done |-> FALSE, ret |-> <<>>, raised |-> ""]

\* done: the call has returned or raised
RenderCall(r) == [lastCall EXCEPT !.done = TRUE, !.ret = r.ret, !.raised = r.raised]

\* a DataFrame exists only where pandas is installed
InitRender ==
    /\ InitVars
    /\ \/ \E data \in RenderInputs.Lists \cup RenderInputs.ColumnDicts
                        \cup RenderInputs.DataFrames \cup RenderInputs.Others,
             max_rows \in 0..MaxRows, pd \in BOOLEAN :
            /\ data.type = "DataFrame" => pd
            /\ lastCall = Pending("render_table",
                                  [data |-> data, max_rows |-> max_rows, pd |-> pd])
       \/ \E df_obj \in RenderInputs.ColumnDicts \cup RenderInputs.DataFrames
                        \cup RenderInputs.Others,
             pd \in BOOLEAN :
            /\ df_obj.type = "DataFrame" => pd
            /\ lastCall = Pending("render_summary", [data |-> df_obj, pd |-> pd])
       \/ \E m \in {x \in RenderInputs.Metrics : x.delta_color # ""} :
            lastCall = Pending("render_metric", m)
       \/ \E metrics \in UNION {[1..n -> RenderInputs.Metrics] : n \in 0..MaxMetrics} :
            lastCall = Pending("render_metric_row", [metrics |-> metrics])

RenderTable ==
    /\ lastCall.op = "render_table" /\ ~lastCall.done
    /\ lastCall' = RenderCall(render_table(lastCall.args.data, "Table",
                                           lastCall.args.max_rows, lastCall.args.pd))
    /\ UNCHANGED <<reportVars, pluginVars, hostVars>>

RenderSummary ==
    /\ lastCall.op = "render_summary" /\ ~lastCall.done
    /\ lastCall' = RenderCall(render_summary(lastCall.args.data, "Data Summary",
                                             lastCall.args.pd))
    /\ UNCHANGED <<reportVars, pluginVars, hostVars>>

RenderMetric ==
    /\ lastCall.op = "render_metric" /\ ~lastCall.done
    /\ lastCall' = RenderCall(render_metric(lastCall.args.label, lastCall.args.value,
                                            lastCall.args.delta, lastCall.args.delta_color))
    /\ UNCHANGED <<reportVars, pluginVars, hostVars>>

RenderMetricRow ==
    /\ lastCall.op = "render_metric_row" /\ ~lastCall.done
    /\ lastCall' = RenderCall(render_metric_row(lastCall.args.metrics))
    /\ UNCHANGED <<reportVars, pluginVars, hostVars>>

NextRender ==
    \/ RenderTable
    \/ RenderSummary
    \/ RenderMetric
    \/ RenderMetricRow

SpecRender == InitRender /\ [][NextRender]_vars

\* the chunks of the buffer that are header fragments
HeaderChunks ==
    {i \in DOMAIN _chunks :
        \/ _chunks[i] \in {HeaderArtifacts, HeaderPlaceholder}
        \/ \E now \in 0..MaxClock : _chunks[i] = HeaderTitle(now)}

\* C27: _ensure_started is idempotent and the started flag is one-way: the
\* three header fragments are in the buffer at most once, next to each other
\* and in order; a repeated _ensure_started changes neither the buffer nor the
\* flag; the flag, once true, stays true
C27_StartedOnce ==
    /\ [](IF _started
          THEN /\ HeaderChunks = {headerAt, headerAt + 1, headerAt + 2}
               /\ \E now \in 0..MaxClock : _chunks[headerAt] = HeaderTitle(now)
               /\ _chunks[headerAt + 1] = HeaderArtifacts
               /\ _chunks[headerAt + 2] = HeaderPlaceholder
          ELSE HeaderChunks = {})
    /\ [][_started => _started']_vars
    /\ [][_started /\ lastCall'.op = "_ensure_started" => _chunks' = _chunks]_vars

\* _ensure_started was called again on a notebook that has content before and
\* after its header
C27_Witness ==
    /\ lastCall.op = "_ensure_started"
    /\ _started /\ headerAt > 1
    /\ Len(_chunks) > headerAt + 2

---------------------------------------------------------------------------
(* Properties of the renderers *)

RECURSIVE split_lines(_, _)
\* text.split("\n"), each line a sequence of tokens
split_lines(text, line) ==
    IF text = <<>> THEN <<line>>
    ELSE IF Head(text) = "\n" THEN <<line>> \o split_lines(Tail(text), <<>>)
    ELSE IF Head(text) = "\n\n" THEN <<line, <<>>>> \o split_lines(Tail(text), <<>>)
    ELSE split_lines(Tail(text), Append(line, Head(text)))

\* the lines of a pipe table in a text
TableLines(text) == SelectSeq(split_lines(text, <<>>), LAMBDA l : l # <<>> /\ l[1] = "| ")

\* the lines under the header line and the separator line
Body(text) == SubSeq(TableLines(text), 3, Len(TableLines(text)))

Cells(line) == [i \in 1..((Len(line) - 1) \div 2) |-> line[2 * i]]

IsEllipsisRow(line) == Cells(line) # <<>> /\ \A i \in DOMAIN Cells(line) : Cells(line)[i] = ELLIPSIS

\* R: the rows of a table input
RowCount(data) ==
    IF data.type = "list" THEN Len(data.items)
    ELSE IF data.type = "dict" THEN len(data.pairs[1][2])
    ELSE Len(data.rows)

ShapeReports(text, n) ==
    \E i \in DOMAIN text : text[i] = "_shape: " /\ text[i + 1] = ToString(n)

TableRendered ==
    /\ lastCall.op = "render_table" /\ lastCall.done /\ lastCall.raised = ""
    /\ UNSUPPORTED_NOTE \notin Range(lastCall.ret)

\* C15: when render_table renders a table of R rows under a maximum M < R,
\* the table has exactly M data rows and then one row whose cells are all
\* the ellipsis character; when R <= M it has exactly R data rows and no
\* ellipsis row; in both cases the shape annotation reports R.
C15_Truncation ==
    TableRendered =>
        LET R == RowCount(lastCall.args.data)
            M == lastCall.args.max_rows
            body == Body(lastCall.ret)
        IN  /\ ShapeReports(lastCall.ret, R)
            /\ M < R => /\ Len(body) = M + 1
                        /\ IsEllipsisRow(body[M + 1])
                        /\ Len(Cells(body[M + 1])) = Len(Cells(TableLines(lastCall.ret)[1]))
                        /\ \A i \in 1..M : ~IsEllipsisRow(body[i])
            /\ R <= M => /\ Len(body) = R
                         /\ \A i \in 1..R : ~IsEllipsisRow(body[i])

\* three mapping rows under a maximum of two
C15_Witness ==
    /\ TableRendered
    /\ lastCall.args.data = PyList(<<PyDict(<<<<"a", PyStr("1")>>>>), PyDict(<<<<"a", PyStr("1")>>>>),
                               PyDict(<<<<"a", PyStr("1")>>>>)>>)
    /\ lastCall.args.max_rows = 2
    /\ Body(lastCall.ret) = <<<<"| ", "1", " |">>, <<"| ", "1", " |">>, <<"| ", ELLIPSIS, " |">>>>

\* C18: render_table and render_summary never raise, whatever the shape of
\* the value; they return a non-empty string, which holds the fallback
\* notice when no table or summary could be rendered.
C18_NeverRaises ==
    lastCall.op \in {"render_table", "render_summary"} /\ lastCall.done =>
        /\ lastCall.raised = ""
        /\ lastCall.ret # <<>>
        /\ lastCall.op = "render_table" /\ TableLines(lastCall.ret) = <<>>
                => UNSUPPORTED_NOTE \in Range(lastCall.ret)
        /\ lastCall.op = "render_summary" /\ ~(lastCall.args.pd /\ lastCall.args.data.type = "DataFrame")
                => \/ NO_PANDAS_NOTE \in Range(lastCall.ret)
                   \/ NOT_DATAFRAME_NOTE \in Range(lastCall.ret)

RECURSIVE split_cells(_, _)
\* line.split("|"), each piece a sequence of tokens
split_cells(line, cell) ==
    IF line = <<>> THEN <<cell>>
    ELSE IF Head(line) = "|" THEN <<cell>> \o split_cells(Tail(line), <<>>)
    ELSE split_cells(Tail(line), Append(cell, Head(line)))

\* what stands in the delta cell of metric i (of 1 for render_metric), without
\* the blanks and bars around it
DeltaCell(i) ==
    LET line == split_lines(lastCall.ret, <<>>)[4]
    IN  IF lastCall.op = "render_metric" THEN SubSeq(line, 2, Len(line) - 1)
        ELSE LET cell == split_cells(line, <<>>)[i + 1]
             IN  SubSeq(cell, 2, Len(cell) - 1)

\* the arrow table of the claim, for a number that is not zero
ArrowTable(delta_color, delta) ==
    LET positive == delta.tokens[1] # "-"
    IN  IF delta_color = "off" THEN <<>>
        ELSE IF (delta_color = "inverse") # positive THEN <<UP_ARROW>>
        ELSE <<DOWN_ARROW>>

DeltaCellRight(m, i) ==
    LET delta_color == IF m.delta_color = "" THEN "normal" ELSE m.delta_color
    IN  m.delta.type # "None" =>
            /\ m.delta.type = "int" /\ m.delta.tokens # <<"0">>
                => DeltaCell(i) = ArrowTable(delta_color, m.delta) \o m.delta.tokens
            /\ m.delta.type = "list" \/ m.delta.tokens = <<"n/a">>
                => DeltaCell(i) = m.delta.tokens
            /\ delta_color = "off" => DeltaCell(i) = m.delta.tokens

\* C16: in render_metric and render_metric_row a positive number as delta
\* gets the up-arrow and a negative one the down-arrow under "normal", the
\* reverse under "inverse", and under "off" the delta text stands without an
\* arrow; a delta that is no number (text, a list) stands as plain text
\* without an arrow; no call raises.
C16_ArrowTable ==
    lastCall.op \in {"render_metric", "render_metric_row"} /\ lastCall.done =>
        /\ lastCall.raised = ""
        /\ lastCall.op = "render_metric" => DeltaCellRight(lastCall.args, 1)
        /\ lastCall.op = "render_metric_row" =>
                \A i \in DOMAIN lastCall.args.metrics :
                    DeltaCellRight(lastCall.args.metrics[i], i)

\* -3 under "inverse" carries the up-arrow
C16_Witness ==
    /\ lastCall.op = "render_metric" /\ lastCall.done
    /\ lastCall.args.delta = Delta("int", <<"-", "3">>)
    /\ lastCall.args.delta_color = "inverse"
    /\ DeltaCell(1) = <<UP_ARROW, "-", "3">>

\* C17: the metric Revenue, $1.2M with delta "+12%" and the default
\* delta_color renders a delta line holding the up-arrow and +12%.
C17_RevenueUpArrow ==
    /\ lastCall.op = "render_metric" /\ lastCall.done
    /\ lastCall.args = [label |-> "Revenue", value |-> "$1.2M",
                        delta |-> Delta("str", <<"+", "12", "%">>), delta_color |-> "normal"]
    => DeltaCell(1) = <<UP_ARROW, "+", "12", "%">>

\* C20: when save_figure was called with matplotlib there, the figure has
\* been closed by the time the call returned or raised, whether or not the
\* write succeeded.
C20_FigureReleased ==
    lastCall.op = "save_figure" /\ lastCall.raised # "ImportError" => lastCall.closed

---------------------------------------------------------------------------
(* Properties of the Notebook *)

\* C19: once every with-block has been left, by the end of its body or by an
\* exception, each expander start marker in the buffer has its end marker.
C19_ScopesBalanced ==
    scopes = <<>> =>
        Count(join(_chunks), "<details") = Count(join(_chunks), "\n</details>")

RECURSIVE Targets(_)
\* the link targets of an index, in the order they are listed
Targets(text) ==
    IF Len(text) < 2 THEN <<>>
    ELSE IF text[1] = "](" THEN <<text[2]>> \o Targets(Tail(Tail(text)))
    ELSE Targets(Tail(text))

Finalized == lastCall.op \in Finalizers /\ lastCall.raised = ""

\* C1: a to_markdown or save that repeats a finalize, with no call changing the
\* buffer or the asset list in between, produces the same text as the earlier
\* one, and no finalize removes anything from the buffer or the asset list.
C1_FinalizeIdempotent ==
    /\ [](Finalized /\ lastCall.before # NoResult
            => FinText(lastCall) = lastCall.before.text)
    /\ [][lastCall'.op \in Finalizers
            => IsPrefix(_chunks, _chunks') /\ _artifacts' = _artifacts]_vars

\* a finalize repeated after the clock moved on, with content and an asset
C1_Witness ==
    /\ Finalized /\ lastCall.before # NoResult
    /\ clock = 1 /\ Count(FinText(lastCall), strftime(0)) = 1
    /\ emitted # <<>> /\ _artifacts # <<>>

\* C2: the first call that touches the buffer of a new Notebook starts the
\* notebook before its own fragment is appended, so the header is the first
\* thing in the buffer whenever the buffer holds anything.
C2_HeaderPrecedesContent == _chunks # <<>> => _started /\ headerAt = 1

\* C4: render_index lists exactly the registered paths, one item per path, in
\* the order of registration; it returns the notice when nothing is registered;
\* it changes nothing, and a call repeated with no registration in between
\* returns the same text.
C4_IndexListsAssets ==
    /\ [](lastCall.op = "render_index" =>
            /\ Targets(lastCall.ret) = [i \in DOMAIN _artifacts |-> PathStr(_artifacts[i])]
            /\ Count(lastCall.ret, "- [") = Len(_artifacts)
            /\ (_artifacts = <<>> <=> lastCall.ret = <<"_No artifacts generated._\n">>)
            /\ (lastCall.before # NoResult => lastCall.ret = lastCall.before.text))
    /\ [][lastCall'.op = "render_index"
            => _artifacts' = _artifacts /\ _chunks' = _chunks]_vars

\* the index asked for twice, two assets registered with a fragment in between
C4_Witness ==
    /\ lastCall.op = "render_index" /\ lastCall.before # NoResult
    /\ Len(_artifacts) = 2 /\ Len(emitted) = 2

\* C5: the buffer only grows at its end: no step removes, reorders or rewrites
\* a chunk that is in it.
C5_AppendOnly == [][IsPrefix(_chunks, _chunks')]_vars

\* a full buffer, finalized and saved
C5_Witness ==
    /\ Len(emitted) = MaxContent /\ headerAt > 1
    /\ lastCall.op = "save" /\ lastCall.raised = ""

\* the buffer joined, the placeholder of the header replaced by the index and
\* every other chunk as it was emitted
ExpectedDocument ==
    join([i \in DOMAIN _chunks |->
            IF _started /\ i = headerAt + 2
            THEN replace(_chunks[i], PLACEHOLDER, render_index(_artifacts))
            ELSE _chunks[i]])

\* C6: the finalized document is the buffer joined in order with only the
\* placeholder of the header replaced by the index: it holds no placeholder,
\* the index once, and every fragment as it was emitted.
C6_OnlyHeaderPlaceholder ==
    lastCall.op = "to_markdown" =>
        /\ lastCall.ret = ExpectedDocument
        /\ Count(lastCall.ret, PLACEHOLDER) = 0
        /\ Count(lastCall.ret, "_No artifacts generated._\n") = (IF _artifacts = <<>> THEN 1 ELSE 0)

\* C7: the text save writes is the text to_markdown returns for the same
\* state, whichever of the two is called first, and save returns the path of
\* the output file.
C7_SaveMatchesToMarkdown ==
    /\ lastCall.op = "save" /\ lastCall.raised = "" =>
            /\ lastCall.file = to_markdown(NB, clock).ret
            /\ lastCall.ret = <<PathStr(out_path)>>
    /\ Finalized /\ lastCall.before.op \notin {"", lastCall.op} =>
            FinText(lastCall) = lastCall.before.text

\* save right after to_markdown, with content and an asset
C7_Witness ==
    /\ lastCall.op = "save" /\ lastCall.raised = ""
    /\ lastCall.before.op = "to_markdown"
    /\ emitted # <<>> /\ _artifacts # <<>>

---------------------------------------------------------------------------
(* The state machine of a CacheManager and the cache_data functions of one *)
(* directory, across restarts of the process                               *)

MGR == [_data_memory |-> _data_memory, _data_disk |-> _data_disk,
        _resource_memory |-> _resource_memory]

\* the object run number id made at time at
Object(id, at) == [id |-> id, at |-> at]

CacheInputs ==
    [Functions |-> {[name |-> "load_prices", ttl |-> <<1>>, max_entries |-> None,
                     persist |-> TRUE],
                    [name |-> "load_data", ttl |-> None, max_entries |-> <<1>>,
                     persist |-> FALSE]},
     Args |-> {"AAPL", "MSFT"}]

Lookups(memory) == memory.stats.hits + memory.stats.misses

\* a call on the cache that ended: was is the stats before it
CacheCall(op, fn, key, r) ==
    [op |-> op, fn |-> fn, key |-> key, ret |-> r.ret, ran |-> r.ran, now |-> clock,
     was |-> _data_memory.stats]

CommitCache(mgr, call) ==
    /\ _data_memory' = mgr._data_memory
    /\ _data_disk' = mgr._data_disk
    /\ _resource_memory' = mgr._resource_memory
    /\ lastCall' = call

Sleep ==
    /\ clock < MaxTime
    /\ clock' = clock + 1
    /\ UNCHANGED <<_started, _chunks, _counter, _artifacts, disk, scopes,
                   lastCall, final, emitted, headerAt, directReg>>
    /\ UNCHANGED <<pluginVars, hostVars>>

CallData ==
    \E fn \in CacheInputs.Functions, arg \in CacheInputs.Args :
        LET r == cache_data(MGR, fn, arg, Object(Len(bodies) + 1, clock), clock)
        IN  /\ Lookups(_data_memory) < MaxLookups
            /\ r.ran => Len(bodies) < MaxRuns
            /\ CommitCache(r.self, CacheCall("cache_data", fn, _make_key(fn.name, arg), r))
            /\ bodies' = IF r.ran THEN Append(bodies, _make_key(fn.name, arg)) ELSE bodies
            /\ UNCHANGED <<reportVars, pluginVars, threads, store, used, runVars, group>>

GetData ==
    \E fn \in CacheInputs.Functions, arg \in CacheInputs.Args :
        LET key == _make_key(fn.name, arg)
            r == get_data(MGR, key, clock)
        IN  /\ Lookups(_data_memory) < MaxLookups
            /\ CommitCache(r.self, CacheCall("get_data", fn, key,
                                             [ret |-> r.ret, ran |-> FALSE]))
            /\ UNCHANGED <<reportVars, pluginVars, threads, bodies, store, used, runVars, group>>

\* the process ends and a new one makes a CacheManager on the same directory
Restart ==
    /\ CommitCache(CacheManager(_data_disk),
                   CacheCall("CacheManager", "", "", [ret |-> _SENTINEL, ran |-> FALSE]))
    /\ UNCHANGED <<reportVars, pluginVars, threads, bodies, store, used, runVars, group>>

NextCache ==
    \/ Sleep
    \/ CallData
    \/ GetData
    \/ Restart

SpecCache == Init /\ [][NextCache]_vars

---------------------------------------------------------------------------
(* The state machine of the threads that call one cache_resource function  *)
(* (cache.py 532-544): the lookup and the store each run under the lock of *)
(* the MemoryStore, the body runs outside it                                *)

ResourceArgs == {"analytics.db", "cache.db"}

\* cached = mgr.get_resource(key)
ResourceLookup ==
    \E t \in Threads, arg \in ResourceArgs :
        LET key == _make_key("get_db", arg)
            r == get_resource(MGR, key, clock)
        IN  /\ threads[t].pc = "idle"
            /\ Lookups(_resource_memory) < MaxLookups
            /\ _resource_memory' = r.self
            /\ threads' = [threads EXCEPT ![t] =
                   [pc |-> IF r.ret # _SENTINEL THEN "return" ELSE "body",
                    key |-> key, result |-> r.ret]]
            /\ UNCHANGED <<reportVars, lastCall, pluginVars, _data_memory, _data_disk,
                           bodies, store, used, runVars, group>>

\* result = fn(*args, **kwargs)
ResourceBody ==
    \E t \in Threads :
        /\ threads[t].pc = "body"
        /\ Len(bodies) < MaxRuns
        /\ bodies' = Append(bodies, threads[t].key)
        /\ threads' = [threads EXCEPT ![t].pc = "put",
                                      ![t].result = Object(Len(bodies) + 1, clock)]
        /\ UNCHANGED <<reportVars, lastCall, pluginVars, _data_memory, _data_disk,
                       _resource_memory, store, used, runVars, group>>

\* mgr.put_resource(key, result, ttl=ttl), ttl None
ResourcePut ==
    \E t \in Threads :
        /\ threads[t].pc = "put"
        /\ _resource_memory' =
               put_resource(MGR, threads[t].key, threads[t].result, None, clock)._resource_memory
        /\ threads' = [threads EXCEPT ![t].pc = "return"]
        /\ UNCHANGED <<reportVars, lastCall, pluginVars, _data_memory, _data_disk,
                       bodies, store, used, runVars, group>>

\* return cached / return result
ResourceReturn ==
    \E t \in Threads :
        /\ threads[t].pc = "return"
        /\ lastCall' = [op |-> "cache_resource", key |-> threads[t].key,
                        ret |-> threads[t].result, thread |-> t]
        /\ threads' = [threads EXCEPT ![t] = Idle]
        /\ UNCHANGED <<reportVars, pluginVars, _data_memory, _data_disk,
                       _resource_memory, bodies, store, used, runVars, group>>

NextResource ==
    \/ ResourceLookup
    \/ ResourceBody
    \/ ResourcePut
    \/ ResourceReturn

SpecResource == Init /\ [][NextResource]_vars

---------------------------------------------------------------------------
(* The state machine of a MemoryStore made with max_entries and its caller *)

StoreKeys == {"a", "b", "c"}

\* key has just been used
Touch(keys, key) == SelectSeq(keys, LAMBDA k : k # key) \o <<key>>

\* a call on the store that ended: was is the store before it
StoreCall(op, key, ret) == [op |-> op, key |-> key, ret |-> ret, was |-> store]

NewStore ==
    \E max_entries \in 1..MaxEntries :
        /\ store' = MemoryStore(<<max_entries>>)
        /\ used' = <<>>
        /\ lastCall' = StoreCall("MemoryStore", "", _SENTINEL)
        /\ UNCHANGED <<reportVars, pluginVars, _data_memory, _data_disk,
                       _resource_memory, threads, bodies, runVars, group>>

StorePut ==
    \E key \in StoreKeys :
        /\ store._max_entries # None
        /\ store.stats.evictions < MaxEvictions
        /\ store' = MemoryStore_put(store, key, Object(0, clock), None, clock)
        /\ used' = LET keys == Touch(used, key)
                        over == Len(keys) - store._max_entries[1]
                    IN  IF over > 0 THEN SubSeq(keys, over + 1, Len(keys)) ELSE keys
        /\ lastCall' = StoreCall("put", key, _SENTINEL)
        /\ UNCHANGED <<reportVars, pluginVars, _data_memory, _data_disk,
                       _resource_memory, threads, bodies, runVars, group>>

StoreGet ==
    \E key \in StoreKeys :
        LET r == MemoryStore_get(store, key, clock)
        IN  /\ store._max_entries # None
            /\ Lookups(store) < MaxLookups
            /\ store' = r.self
            /\ used' = IF r.ret # _SENTINEL THEN Touch(used, key) ELSE used
            /\ lastCall' = StoreCall("get", key, r.ret)
            /\ UNCHANGED <<reportVars, pluginVars, _data_memory, _data_disk,
                           _resource_memory, threads, bodies, runVars, group>>

NextStore ==
    \/ Sleep
    \/ NewStore
    \/ StorePut
    \/ StoreGet

SpecStore == Init /\ [][NextStore]_vars

---------------------------------------------------------------------------
(* The state machine of Runner.execute (runner.py 147-240) and the script  *)
(* it runs.  The script writes to a Notebook, calls cache_data functions   *)
(* and changes directory; the cache directory is the default one.          *)

RunConfig(live, no_cache) == [live |-> live, no_cache |-> no_cache]

\* the locals of an execute in progress; at and mark are the lengths of the
\* buffer and of the stream when it began, dropped the writes the stream refused
Running(config, original_cwd, original_w) ==
    [pc |-> "exec", config |-> config, original_cwd |-> original_cwd,
     _original_w |-> original_w, at |-> Len(_chunks), mark |-> Len(stream),
     dropped |-> 0, was |-> [cwd |-> cwd, _w |-> Notebook_w]]

\* an execute that ended: was is what the process was before it, began
\* whether the script was started
RunCall(status, config) ==
    [op |-> "execute", status |-> status, config |-> config,
     began |-> run.pc = "exec",
     was |-> IF run.pc = "exec" THEN run.was ELSE [cwd |-> cwd, _w |-> Notebook_w]]

\* Notebook._w after the hook is installed; Runner._original_w is set
_install_live_hook(w) == [_w |-> "hooked_w", _original_w |-> <<w>>]

_uninstall_live_hook_never(w, original_w) == w

\* Notebook._w after the hook is taken out
_uninstall_live_hook(w, original_w) == IF original_w # None THEN original_w[1] ELSE w

\* LiveWriter.on_write: a BrokenPipeError or OSError of the stream is swallowed
on_write(out, chunk, write_ok) == IF write_ok THEN Append(out, chunk) ELSE out

\* the script is missing or is not a .py file
ExecuteRejected ==
    \E live \in BOOLEAN, no_cache \in BOOLEAN :
        /\ run.pc = "idle"
        /\ lastCall' = RunCall("ERROR", RunConfig(live, no_cache))
        /\ UNCHANGED <<reportVars, pluginVars, cacheVars, runVars, group>>

\* execute up to exec(code, script_globals)
ExecuteBegin ==
    \E live \in BOOLEAN, no_cache \in BOOLEAN :
        /\ run.pc = "idle"
        /\ run' = Running(RunConfig(live, no_cache), cwd,
                          IF live THEN _install_live_hook(Notebook_w)._original_w ELSE None)
        /\ Notebook_w' = IF live THEN _install_live_hook(Notebook_w)._w ELSE Notebook_w
        /\ cwd' = "/project"
        /\ UNCHANGED <<reportVars, lastCall, pluginVars, cacheVars, stream, group>>

\* the script writes a chunk: Notebook._w, hooked or not
ScriptWrite ==
    \E text \in Inputs.Texts, write_ok \in BOOLEAN :
        /\ run.pc = "exec"
        /\ Len(_chunks) < MaxContent
        /\ _chunks' = md(NB, text).chunks
        /\ stream' = IF Notebook_w = "hooked_w"
                      THEN on_write(stream, render_md(text), write_ok) ELSE stream
        /\ run' = IF Notebook_w = "hooked_w" /\ ~write_ok
                   THEN [run EXCEPT !.dropped = @ + 1] ELSE run
        /\ UNCHANGED <<_started, _counter, _artifacts, disk, clock, scopes, lastCall,
                       final, emitted, headerAt, directReg, pluginVars, cacheVars,
                       cwd, Notebook_w, group>>

\* the script calls a function it decorated with cache_data
ScriptCall ==
    \E fn \in CacheInputs.Functions :
        LET r == cache_data(MGR, fn, "AAPL", Object(Len(bodies) + 1, clock), clock)
        IN  /\ run.pc = "exec"
            /\ Lookups(_data_memory) < MaxLookups
            /\ r.ran => Len(bodies) < MaxRuns
            /\ CommitCache(r.self, CacheCall("cache_data", fn, _make_key(fn.name, "AAPL"), r))
            /\ bodies' = IF r.ran THEN Append(bodies, _make_key(fn.name, "AAPL"))
                          ELSE bodies
            /\ UNCHANGED <<reportVars, pluginVars, threads, store, used, runVars, group>>

\* os.chdir in the script
ScriptChdir ==
    /\ run.pc = "exec"
    /\ cwd = "/project"
    /\ cwd' = "/tmp"
    /\ UNCHANGED <<reportVars, lastCall, pluginVars, cacheVars, Notebook_w, stream,
                   run, group>>

\* the script ends, raises or is interrupted: the return and the finally block
ExecuteEnd ==
    \E status \in {"SUCCESS", "ERROR", "INTERRUPTED", "SystemExit"} :
        /\ run.pc = "exec"
        /\ cwd' = run.original_cwd
        /\ Notebook_w' = _uninstall_live_hook(Notebook_w, run._original_w)
        /\ run' = NoRun
        /\ lastCall' = RunCall(status, run.config)
        /\ UNCHANGED <<reportVars, pluginVars, cacheVars, stream, group>>

NextRunner ==
    \/ ExecuteRejected
    \/ ExecuteBegin
    \/ ScriptWrite
    \/ ScriptCall
    \/ ScriptChdir
    \/ ExecuteEnd

SpecRunner == Init /\ [][NextRunner]_vars

---------------------------------------------------------------------------
(* The state machine of one column group, its Notebook and their caller *)

ColumnSpecs ==
    {[type |-> "int", v |-> k] : k \in 1..MaxColumns} \cup {[type |-> "list", items |-> <<2, 1>>]}

Event(ev, index, chunk) == [ev |-> ev, index |-> index, chunk |-> chunk]

\* the notebook is left as n, the group as g
CommitGroup(n, g) ==
    /\ _chunks' = n.chunks
    /\ group' = g
    /\ UNCHANGED <<_started, _counter, _artifacts, disk, clock, scopes, lastCall, final,
                   emitted, headerAt, directReg, pluginVars, cacheVars, runVars>>

Columns ==
    \E spec \in ColumnSpecs :
        /\ group = NoGroup
        /\ CommitGroup(columns(NB, spec).n, columns(NB, spec).ret)

ColEnter ==
    \E index \in 0..(MaxColumns - 1) :
        /\ group # NoGroup /\ group.open = None
        /\ Len(SelectSeq(group.log, LAMBDA e : e.ev = "enter")) < MaxColumns
        /\ CommitGroup(col_enter(NB, index),
                       [group EXCEPT !.open = <<index>>,
                                     !.log = Append(@, Event("enter", index, <<>>))])

\* a call of the body of the with-block
ColWrite ==
    \E text \in Inputs.Texts :
        /\ group.open # None
        /\ Len(SelectSeq(group.log, LAMBDA e : e.ev = "write")) < MaxContent
        /\ CommitGroup(md(NB, text),
                       [group EXCEPT !.log = Append(@, Event("write", group.open[1],
                                                             render_md(text)))])

\* the body ends
ColExit ==
    /\ group.open # None
    /\ CommitGroup(col_exit(NB, group, group.open[1]),
                   [group EXCEPT !.open = None,
                                 !.log = Append(@, Event("exit", group.open[1], <<>>))])

\* the body raises: the generator is not resumed after the yield
ColRaise ==
    /\ group.open # None
    /\ CommitGroup(NB, [group EXCEPT !.open = None,
                                     !.log = Append(@, Event("raise", group.open[1], <<>>))])

NextColumns ==
    \/ Columns
    \/ ColEnter
    \/ ColWrite
    \/ ColExit
    \/ ColRaise

SpecColumns == Init /\ [][NextColumns]_vars

---------------------------------------------------------------------------
(* Properties of the cache *)

\* C21: a value cached with ttl = t is never returned once more than t seconds
\* have passed since it was stored: a cache_data call that does not run the
\* body returns a value no older than the ttl of its function
C21_TtlRespected ==
    lastCall.op = "cache_data" /\ lastCall.fn.ttl # None /\ ~lastCall.ran
        => lastCall.now - lastCall.ret.at <= lastCall.fn.ttl[1]

\* the entries a function has in the memory store
Kept(fn) ==
    {i \in DOMAIN _data_memory._data :
        \E arg \in CacheInputs.Args : _data_memory._data[i].key = _make_key(fn.name, arg)}

\* C22: a function decorated with cache_data(max_entries=N) never has more
\* than N results kept in the cache
C22_MaxEntries ==
    \A fn \in CacheInputs.Functions :
        fn.max_entries # None => Cardinality(Kept(fn)) <= fn.max_entries[1]

\* C30: every CacheManager.get_data call adds exactly 1 to hits + misses of
\* data_stats: 1 to hits and nothing to misses when it returns a value, 1 to
\* misses and nothing to hits when it does not
C30_StatsCount ==
    lastCall.op = "get_data" =>
        LET was == lastCall.was
            stats == _data_memory.stats
        IN  IF lastCall.ret # _SENTINEL
            THEN stats.hits = was.hits + 1 /\ stats.misses = was.misses
            ELSE stats.hits = was.hits /\ stats.misses = was.misses + 1

\* a get_data call of a new process returned a value from disk and promoted it
C30_Witness ==
    /\ lastCall.op = "get_data"
    /\ lastCall.ret # _SENTINEL
    /\ lastCall.was = CacheStats
    /\ _data_memory.stats.hits = 1
    /\ Find(_data_memory._data, lastCall.key) # 0

\* C23: a cache_resource function is a singleton per argument tuple: its body
\* runs at most once for a key, and the calls with that key, from whatever
\* thread, all return the same object
C23_Singleton ==
    /\ \A i, j \in DOMAIN bodies : bodies[i] = bodies[j] => i = j
    /\ \A t, u \in Threads :
           threads[t].pc = "return" /\ threads[u].pc = "return"
               /\ threads[t].key = threads[u].key
           => threads[t].result = threads[u].result
    /\ \A t \in Threads :
           lastCall.op = "cache_resource" /\ threads[t].pc = "return"
               /\ threads[t].key = lastCall.key
           => threads[t].result = lastCall.ret

\* the keys a store holds
KeysOf(memory) == {memory._data[i].key : i \in DOMAIN memory._data}

\* C26: after every put a MemoryStore with max_entries = N holds at most N
\* entries, the key just put among them, and the entries gone are the least
\* recently used ones, use being the latest get hit or put of the key
C26_LeastRecentlyUsed ==
    lastCall.op = "put" =>
        /\ Len(store._data) <= store._max_entries[1]
        /\ lastCall.key \in KeysOf(store)
        /\ KeysOf(store) = Range(used)

---------------------------------------------------------------------------
(* Properties of the runner *)

\* C24: in a run with no_cache every call of a cache_data function runs the
\* body of the function
C24_NoCache ==
    run.pc = "exec" /\ run.config.no_cache /\ lastCall.op = "cache_data"
        => lastCall.ran

\* the chunks the buffer and the live stream received since the run began
RunChunks == SubSeq(_chunks, run.at + 1, Len(_chunks))

RunStream == SubSeq(stream, run.mark + 1, Len(stream))

\* after execute the working directory, and in live mode Notebook._w, are
\* what they were before it
Restored ==
    lastCall.op = "execute" /\ run.pc = "idle" =>
        /\ cwd = lastCall.was.cwd
        /\ lastCall.config.live => Notebook_w = lastCall.was._w

RECURSIVE IsSubSeq(_, _)
\* s is t with some elements left out
IsSubSeq(s, t) ==
    IF s = <<>> THEN TRUE
    ELSE IF t = <<>> THEN FALSE
    ELSE IF Head(s) = Head(t) THEN IsSubSeq(Tail(s), Tail(t))
    ELSE IsSubSeq(s, Tail(t))

---------------------------------------------------------------------------
(* Properties of the column layout *)

\* the indices of the columns opened so far, in order
Opened == [i \in DOMAIN SelectSeq(group.log, LAMBDA e : e.ev = "enter") |->
              SelectSeq(group.log, LAMBDA e : e.ev = "enter")[i].index]

\* the columns were opened in the order 0, 1, ..., each once, none beyond the
\* last, and no body raised
InOrder ==
    /\ group # NoGroup
    /\ Len(Opened) <= group._n[1]
    /\ \A i \in DOMAIN Opened : Opened[i] = i - 1
    /\ \A i \in DOMAIN group.log : group.log[i].ev # "raise"

\* the chunks written in column index
ContentOf(index) ==
    LET writes == SelectSeq(group.log, LAMBDA e : e.ev = "write" /\ e.index = index)
    IN  [i \in DOMAIN writes |-> writes[i].chunk]

RECURSIVE Laid(_)
\* the separators and contents of the columns 0..k-1
Laid(k) ==
    IF k = 0 THEN <<>>
    ELSE Laid(k - 1) \o (IF k > 1 THEN <<render_column_separator>> ELSE <<>>)
                    \o ContentOf(k - 1)

\* the last column has closed
AllClosed == \E i \in DOMAIN group.log :
                group.log[i].ev = "exit" /\ group.log[i].index = group._n[1] - 1

\* C29: for a group of n >= 1 columns opened once each in the order 0..n-1
\* the buffer holds the columns-start marker, the content of column 0, for
\* each later column one separator and then its content, and one columns-end
\* marker once column n-1 has closed and not before
C29_ColumnMarkers ==
    InOrder =>
        /\ _chunks[1][1] = "<!-- columns: " /\ _chunks[1][2] = ToString(group._n[1])
        /\ Tail(_chunks) = Laid(Len(Opened))
                             \o (IF AllClosed THEN <<render_columns_end>> ELSE <<>>)

\* the three columns of a group were used in order, two of them with content
C29_Witness ==
    /\ InOrder /\ AllClosed
    /\ group._n = <<3>>
    /\ ContentOf(0) # <<>> /\ ContentOf(2) # <<>>
    /\ _chunks[Len(_chunks)] = render_columns_end

====
